---------------------------- MODULE Spec2Model ----------------------------
(***************************************************************************)
(* A model of loggdme/kyro: the bounded worker pools (ParallelQueue in     *)
(* pqueue.go, ParallelFileProcessor in file_processor.go) and the pipeline *)
(* composers (InSequence, InParallel, ExitOnErrorStep in pipeline.go).     *)
(*                                                                         *)
(* The worker pools are modelled goroutine by goroutine: the caller of     *)
(* Process, the producer and the W workers, with the two channels, the     *)
(* wait group and the mutex as state.                                      *)
(***************************************************************************)
EXTENDS Integers, Sequences, FiniteSets, TLC

(* ------------------------------ bounds --------------------------------- *)

\* the largest worker count a pool is constructed with
MaxWorkers == 2
\* the largest number of items handed to a ParallelQueue
MaxItems == 2
\* the largest progress batch size
MaxBatch == 2
\* the largest number of bytes in the file of a ParallelFileProcessor
MaxFileLen == 2
\* the largest number of steps of the invoked InSequence
MaxSteps == 3
\* the largest number of branches of the invoked InParallel
MaxBranches == 2
\* the longest slice a helper step is called with
MaxListLen == 2
\* the largest number of items of a RoundRobin
MaxRing == 3
\* the number of goroutines that call Next
MaxCallers == 2
\* the number of calls of Next over all goroutines
MaxNextCalls == 4
\* the number of executions of one composed pipeline
MaxRuns == 2

(* ------------------------- worker pool state --------------------------- *)

VARIABLES
    kind,             \* "queue": ParallelQueue, "file": ParallelFileProcessor
    numberOfWorkers,  \* field numberOfWorkers
    itemsSet,         \* WithItems was called with a non-nil pointer
    items,            \* *c.items, the collection of the queue
    filePath,         \* field filePath: "" or a path
    fileOpens,        \* whether os.Open(filePath) succeeds
    content,          \* the bytes of the file
    readFaultAt,      \* -1: none; f >= 0: the reader faults after f bytes
    processFuncSet,   \* processFunc / processLineFunc is not nil
    failing,          \* the positions of the items the process function fails on
    progressBatch,    \* field progressBatch
    progressFuncSet,  \* progressFunc is not nil
    errorFuncSet,     \* errorFunc is not nil
    processed,        \* field processed
    processedMutex,   \* field processedMutex: 0 when free, else the holding worker
    itemCh,           \* buffer of itemCh / lineCh
    itemChClosed,
    errCh,            \* buffer of errCh
    errChClosed,
    wg,               \* the counter of the sync.WaitGroup
    mainPc,           \* position of the caller of Process
    prodPc,           \* position of the producer goroutine
    prodIdx,          \* queue: next position of the range loop; file: lines sent
    prodPos,          \* file: bytes consumed by the bufio.Reader
    wpc,              \* position of each worker goroutine
    wItem,            \* the item a worker holds
    wCur,             \* a worker's currentProcessed
    erroredItems,     \* the returned error-set
    retErr,           \* the returned error
    calls,            \* how often the process function was invoked per position
    progressLog,      \* the counts the progress notifier was invoked with, in order
    errorLog          \* per position, the errors the error notifier was invoked with

poolVars == <<kind, numberOfWorkers, itemsSet, items, filePath, fileOpens, content,
              readFaultAt, processFuncSet, failing, progressBatch, progressFuncSet,
              errorFuncSet, processed, processedMutex, itemCh, itemChClosed, errCh,
              errChClosed, wg, mainPc, prodPc, prodIdx, prodPos, wpc, wItem,
              wCur, erroredItems, retErr, calls, progressLog, errorLog>>

configVars == <<kind, numberOfWorkers, itemsSet, items, filePath, fileOpens, content,
                readFaultAt, processFuncSet, failing, progressBatch, progressFuncSet,
                errorFuncSet>>

(* --------------------------- pipeline state ---------------------------- *)

VARIABLES
    pipeline,         \* the composed PipelineStep that is invoked
    input,            \* the input it is invoked with
    lastErr,          \* the prior error it is invoked with
    pipePc,           \* position of the invoking goroutine
    panicked,         \* a goroutine of the pipeline has panicked
    currentInput,     \* InSequence: local currentInput
    currentErr,       \* InSequence: local currentErr
    beforeExitErr,    \* InSequence: local beforeExitErr
    stepIdx,          \* InSequence: the number of steps the range loop has run
    invoked,          \* InSequence: the calls made, with arguments and results
    results,          \* InParallel: the results slice
    parErrCh,         \* InParallel: buffer of errCh
    parWg,            \* InParallel: the counter of the sync.WaitGroup
    doneClosed,       \* InParallel: close(done) has happened
    bpc,              \* InParallel: position of each branch goroutine
    bOut,             \* InParallel: what each branch's step returned
    branchCalls,      \* InParallel: per branch, the arguments of the calls of its step
    reported,         \* InParallel: the branches that sent to errCh, in order
    pipeOut,          \* the output the pipeline returned
    pipeErr           \* the error the pipeline returned

pipeVars == <<pipeline, input, lastErr, pipePc, panicked, currentInput, currentErr,
              beforeExitErr, stepIdx, invoked, results, parErrCh, parWg, doneClosed,
              bpc, bOut, branchCalls, reported, pipeOut, pipeErr>>

(* -------------------- a single call of a helper step ------------------- *)

VARIABLES
    fn,               \* the step that is called: its constructor and type arguments
    fnInput,          \* the input it is called with
    fnLastErr,        \* the prior error it is called with
    fnPc,             \* "start", "returned" or "panicked"
    fnOut,            \* the output it returned
    fnErr,            \* the error it returned
    fnPanic,          \* the value it panicked with
    fnWrapped         \* the arguments of the calls of the wrapped function

stepVars == <<fn, fnInput, fnLastErr, fnPc, fnOut, fnErr, fnPanic, fnWrapped>>

(* ------------------------- client_rotator.go state --------------------- *)

VARIABLES
    rrCreated,        \* NewRoundRobin returned a RoundRobin
    rrItems,          \* field items
    rrIndex,          \* field index
    rrMu,             \* field mu: 0 when free, else the goroutine that holds it
    rrPc,             \* position of each goroutine that calls Next
    rrItem,           \* local item of each goroutine's call of Next
    rrLog             \* the items taken by the calls, in the order of the lock

rotVars == <<rrCreated, rrItems, rrIndex, rrMu, rrPc, rrItem, rrLog>>

(* ------------------------- repeated executions ------------------------- *)

VARIABLES
    runs              \* what the earlier executions of the pipeline returned

(* ------------------------ concurrent executions ------------------------ *)

VARIABLES
    execs,            \* per execution of the pipeline: its arguments, position and locals
    xResults          \* the results slices that the executions made

concVars == <<execs, xResults>>

restVars == <<stepVars, rotVars, runs, concVars>>

vars == <<poolVars, pipeVars, restVars>>

(* ------------------------------ values --------------------------------- *)

\* the line delimiter of ReadBytes
LF == 10
\* progressBatch as the constructors set it
DefaultBatch == 100
Bytes == {LF, 120}

NoItem == [idx |-> 0, val |-> <<>>]
NoError == [msg |-> "nil", n |-> 0]
ConfigError(m) == [msg |-> m, n |-> 0]

Workers == 1..numberOfWorkers

\* all sequences over S of length at most n
SeqsUpTo(S, n) == UNION {[1..k -> S] : k \in 0..n}

(* --------------------------- file_processor.go ------------------------- *)

\* the bytes the underlying reader delivers before it reports end-of-stream or
\* a fault
Available == IF readFaultAt < 0 THEN content ELSE SubSeq(content, 1, readFaultAt)

\* bufio.Reader.ReadBytes('\n') with pos bytes consumed: the bytes up to and
\* including the first line feed, or what is left together with the error
ReadBytes(pos) ==
    LET lfs == {j \in (pos + 1)..Len(Available) : Available[j] = LF}
    IN  IF lfs # {}
        THEN LET j == CHOOSE k \in lfs : \A l \in lfs : k <= l
             IN  [data |-> SubSeq(Available, pos + 1, j), err |-> "nil", next |-> j]
        ELSE [data |-> SubSeq(Available, pos + 1, Len(Available)),
              err |-> IF readFaultAt < 0 THEN "EOF" ELSE "fault",
              next |-> Len(Available)]

\* lineBytes with the trailing line feed removed
StripLF(lineBytes) ==
    IF Len(lineBytes) > 0 /\ lineBytes[Len(lineBytes)] = LF
    THEN SubSeq(lineBytes, 1, Len(lineBytes) - 1)
    ELSE lineBytes


\* FileFetch of a reader that sends the bytes it got together with an error
FileFetchSendsPartial ==
    LET r == ReadBytes(prodPos)
    IN  IF r.err # "nil" /\ r.data = <<>>
        THEN [item |-> NoItem, next |-> r.next]
        ELSE [item |-> [idx |-> prodIdx + 1, val |-> StripLF(r.data)], next |-> r.next]

\* one iteration of the reading goroutine's loop (file_processor.go 133-150) up to
\* the send: one call of ReadBytes, the break on any error, the strip. The result
\* is the line to send, or NoItem when the loop is left
FileFetch ==
    LET r == ReadBytes(prodPos)
    IN  IF r.err # "nil"
        THEN [item |-> NoItem, next |-> r.next]
        ELSE [item |-> [idx |-> prodIdx + 1, val |-> StripLF(r.data)], next |-> r.next]

(* ------------------------------ pqueue.go ------------------------------ *)

\* QueueFetch of a producer that gives up once a failed item is on errCh
QueueFetchStopsOnFailure ==
    IF prodIdx < Len(items) /\ Len(errCh) = 0
    THEN [item |-> [idx |-> prodIdx + 1, val |-> items[prodIdx + 1]], next |-> 0]
    ELSE [item |-> NoItem, next |-> 0]

\* one iteration of `for _, item := range *c.items` up to the send: the item
\* to send, or NoItem when the range is exhausted
QueueFetch ==
    IF prodIdx < Len(items)
    THEN [item |-> [idx |-> prodIdx + 1, val |-> items[prodIdx + 1]], next |-> 0]
    ELSE [item |-> NoItem, next |-> 0]

(* ------------------- Process: the checks before any spawn -------------- *)

\* QueueConfigFault of a Process that does not look at processFunc
QueueConfigFaultSkipsFunc ==
    IF numberOfWorkers <= 0 THEN ConfigError("number of workers must be positive")
    ELSE IF ~itemsSet \/ Len(items) = 0
         THEN ConfigError("items must be non-nil and non-empty")
    ELSE NoError

\* the configuration checks of ParallelQueue.Process, in the code's order
QueueConfigFault ==
    IF numberOfWorkers <= 0 THEN ConfigError("number of workers must be positive")
    ELSE IF ~itemsSet \/ Len(items) = 0
         THEN ConfigError("items must be non-nil and non-empty")
    ELSE IF ~processFuncSet THEN ConfigError("process function must be set")
    ELSE NoError

\* the configuration checks of ParallelFileProcessor.Process, in the code's order
FileConfigFault ==
    IF numberOfWorkers <= 0 THEN ConfigError("number of workers must be positive")
    ELSE IF filePath = "" THEN ConfigError("file path must be set")
    ELSE IF ~processFuncSet THEN ConfigError("process line function must be set")
    ELSE IF ~fileOpens THEN ConfigError("failed to open file")
    ELSE NoError

\* ConfigFault of a Process that looks at the worker count last
ConfigFaultWorkersLast ==
    IF kind = "queue"
    THEN IF ~itemsSet \/ Len(items) = 0
         THEN ConfigError("items must be non-nil and non-empty")
         ELSE IF ~processFuncSet THEN ConfigError("process function must be set")
         ELSE IF numberOfWorkers <= 0
              THEN ConfigError("number of workers must be positive")
         ELSE NoError
    ELSE IF filePath = "" THEN ConfigError("file path must be set")
         ELSE IF ~processFuncSet THEN ConfigError("process line function must be set")
         ELSE IF ~fileOpens THEN ConfigError("failed to open file")
         ELSE IF numberOfWorkers <= 0
              THEN ConfigError("number of workers must be positive")
         ELSE NoError

\* ConfigFault of a Process that rejects a batch size that is not positive
ConfigFaultChecksBatch ==
    IF progressFuncSet /\ progressBatch <= 0
    THEN ConfigError("progress batch must be positive")
    ELSE IF kind = "queue" THEN QueueConfigFault ELSE FileConfigFault

\* the result of the checks Process makes before it starts anything
ConfigFault == IF kind = "queue" THEN QueueConfigFault ELSE FileConfigFault

\* capacity of the item channel: make(chan ITEM, c.numberOfWorkers)
ItemChCap == numberOfWorkers

\* ErrChCap of a queue that sizes errCh like the file processor does
ErrChCapOfWorkers == numberOfWorkers

\* capacity of the failure channel: len(*c.items) in the queue,
\* p.numberOfWorkers in the file processor
ErrChCap == IF kind = "queue" THEN Len(items) ELSE numberOfWorkers

\* the summary error of a run with n failed items
SummaryError(n) ==
    IF n > 0
    THEN [msg |-> IF kind = "queue"
                  THEN "encountered %d errors during processing"
                  ELSE "encountered %d errors during line processing",
          n |-> n]
    ELSE NoError

Alive == mainPc # "panicked"

\* Process up to wg.Wait(): the checks, the channels, wg.Add, the spawns
ProcessStart ==
    /\ mainPc = "start"
    /\ IF ConfigFault # NoError
       THEN /\ mainPc' = "done"
            /\ retErr' = ConfigFault
            /\ UNCHANGED <<wg, wpc, prodPc>>
       ELSE /\ mainPc' = "wait"
            /\ wg' = numberOfWorkers
            /\ wpc' = [w \in Workers |-> "recv"]
            /\ prodPc' = "loop"
            /\ UNCHANGED retErr
    /\ UNCHANGED <<pipeVars, restVars, configVars, processed, processedMutex, itemCh,
                   itemChClosed, errCh,
                   errChClosed, prodIdx, prodPos, wItem, wCur, erroredItems,
                   calls, progressLog, errorLog>>

(* ------------------------------ producer ------------------------------- *)

\* what the producer's loop does next
Fetch == IF kind = "queue" THEN QueueFetch ELSE FileFetch

\* an item channel without a bound
ItemChHasRoomAlways == TRUE

\* a send on the item channel can proceed
ItemChHasRoom == Len(itemCh) < ItemChCap

\* one iteration of the producer's loop: itemCh <- item, which blocks while the
\* channel is full
ProducerSend ==
    /\ Alive
    /\ prodPc = "loop"
    /\ Fetch.item # NoItem
    /\ ItemChHasRoom
    /\ IF itemChClosed
       THEN /\ mainPc' = "panicked"
            /\ UNCHANGED <<itemCh, prodIdx, prodPos>>
       ELSE /\ itemCh' = Append(itemCh, Fetch.item)
            /\ prodIdx' = prodIdx + 1
            /\ prodPos' = Fetch.next
            /\ UNCHANGED mainPc
    /\ UNCHANGED <<pipeVars, restVars, configVars, processed, processedMutex,
                   itemChClosed, errCh,
                   errChClosed, wg, prodPc, wpc, wItem, wCur, erroredItems,
                   retErr, calls, progressLog, errorLog>>

\* ProducerClose of a producer that returns without close(itemCh)
ProducerCloseForgotten ==
    /\ Alive
    /\ prodPc = "loop"
    /\ Fetch.item = NoItem
    /\ prodPos' = Fetch.next
    /\ prodPc' = "done"
    /\ UNCHANGED <<pipeVars, restVars, configVars, processed, processedMutex, itemCh,
                   itemChClosed, errCh,
                   errChClosed, wg, mainPc, prodIdx, wpc, wItem, wCur,
                   erroredItems, retErr, calls, progressLog, errorLog>>

\* the loop is left; close(itemCh)
ProducerClose ==
    /\ Alive
    /\ prodPc = "loop"
    /\ Fetch.item = NoItem
    /\ itemChClosed' = TRUE
    /\ prodPos' = Fetch.next
    /\ prodPc' = "done"
    /\ UNCHANGED <<pipeVars, restVars, configVars, processed, processedMutex, itemCh,
                   errCh, errChClosed,
                   wg, mainPc, prodIdx, wpc, wItem, wCur,
                   erroredItems, retErr, calls, progressLog, errorLog>>

(* ------------------------------- workers ------------------------------- *)

\* the process function applied to an item: nil or an error
ProcessFunc(item) == IF item.idx \in failing THEN "item error" ELSE "nil"

\* `for item := range itemCh`: take the next item
WorkerRecv(w) ==
    /\ Alive
    /\ wpc[w] = "recv"
    /\ Len(itemCh) > 0
    /\ wItem' = [wItem EXCEPT ![w] = Head(itemCh)]
    /\ itemCh' = Tail(itemCh)
    /\ wpc' = [wpc EXCEPT ![w] = "process"]
    /\ UNCHANGED <<pipeVars, restVars, configVars, processed, processedMutex,
                   itemChClosed, errCh,
                   errChClosed, wg, mainPc, prodPc, prodIdx, prodPos, wCur,
                   erroredItems, retErr, calls, progressLog, errorLog>>

\* the range loop ends once the channel is closed and empty; defer wg.Done()
WorkerExit(w) ==
    /\ Alive
    /\ wpc[w] = "recv"
    /\ Len(itemCh) = 0
    /\ itemChClosed
    /\ wpc' = [wpc EXCEPT ![w] = "done"]
    /\ wg' = wg - 1
    /\ UNCHANGED <<pipeVars, restVars, configVars, processed, processedMutex, itemCh,
                   itemChClosed, errCh,
                   errChClosed, mainPc, prodPc, prodIdx, prodPos, wItem, wCur,
                   erroredItems, retErr, calls, progressLog, errorLog>>

\* a send on the failure channel can proceed
ErrChHasRoom == Len(errCh) < ErrChCap

\* SelectSend of a select that always takes default
SelectTakesDefault == FALSE

\* the branch of the select a failed item takes: the send when it can proceed,
\* else default
SelectSend == ErrChHasRoom

\* a default branch that reports the original error only
ErrorFuncCallsOriginalOnly(sent, itemErr) ==
    IF ~errorFuncSet THEN <<>> ELSE <<itemErr>>

\* the calls of the error notifier for a failed item, by the branch of the select
ErrorFuncCalls(sent, itemErr) ==
    IF ~errorFuncSet THEN <<>>
    ELSE IF sent THEN <<itemErr>>
    ELSE <<"error channel is full", itemErr>>

\* WorkerProcess of a worker that goes on to the next item after a failure,
\* without counting the failed one
WorkerProcessSkipsFailed(w) ==
    /\ Alive
    /\ wpc[w] = "process"
    /\ calls' = [calls EXCEPT ![wItem[w].idx] = @ + 1]
    /\ IF ProcessFunc(wItem[w]) = "nil"
       THEN /\ wpc' = [wpc EXCEPT ![w] = "lock"]
            /\ UNCHANGED <<errCh, errorLog, mainPc>>
       ELSE IF SelectSend /\ errChClosed
       THEN /\ mainPc' = "panicked"
            /\ UNCHANGED <<errCh, errorLog, wpc>>
       ELSE /\ errCh' = IF SelectSend THEN Append(errCh, wItem[w]) ELSE errCh
            /\ errorLog' = [errorLog EXCEPT ![wItem[w].idx] =
                               @ \o ErrorFuncCalls(SelectSend, ProcessFunc(wItem[w]))]
            /\ wpc' = [wpc EXCEPT ![w] = "recv"]
            /\ UNCHANGED mainPc
    /\ UNCHANGED <<pipeVars, restVars, configVars, processed, processedMutex, itemCh,
                   itemChClosed,
                   errChClosed, wg, prodPc, prodIdx, prodPos, wItem, wCur,
                   erroredItems, retErr, progressLog>>

\* WorkerProcess of a worker that counts a failed item before it calls the
\* error notifier
WorkerProcessCountsFirst(w) ==
    /\ Alive
    /\ wpc[w] = "process"
    /\ calls' = [calls EXCEPT ![wItem[w].idx] = @ + 1]
    /\ IF ProcessFunc(wItem[w]) = "nil"
       THEN /\ wpc' = [wpc EXCEPT ![w] = "lock"]
            /\ UNCHANGED <<errCh, errorLog, mainPc>>
       ELSE IF SelectSend /\ errChClosed
       THEN /\ mainPc' = "panicked"
            /\ UNCHANGED <<errCh, errorLog, wpc>>
       ELSE /\ errCh' = IF SelectSend THEN Append(errCh, wItem[w]) ELSE errCh
            /\ wpc' = [wpc EXCEPT ![w] = "lock"]
            /\ UNCHANGED <<errorLog, mainPc>>
    /\ UNCHANGED <<pipeVars, restVars, configVars, processed, processedMutex, itemCh,
                   itemChClosed,
                   errChClosed, wg, prodPc, prodIdx, prodPos, wItem, wCur,
                   erroredItems, retErr, progressLog>>

\* the body of `if err := c.processFunc(item); err != nil { select ... }`
WorkerProcess(w) ==
    /\ Alive
    /\ wpc[w] = "process"
    /\ calls' = [calls EXCEPT ![wItem[w].idx] = @ + 1]
    /\ IF ProcessFunc(wItem[w]) = "nil"
       THEN /\ wpc' = [wpc EXCEPT ![w] = "lock"]
            /\ UNCHANGED <<errCh, errorLog, mainPc>>
       ELSE IF SelectSend /\ errChClosed
       THEN /\ mainPc' = "panicked"
            /\ UNCHANGED <<errCh, errorLog, wpc>>
       ELSE /\ errCh' = IF SelectSend THEN Append(errCh, wItem[w]) ELSE errCh
            /\ errorLog' = [errorLog EXCEPT ![wItem[w].idx] =
                               @ \o ErrorFuncCalls(SelectSend, ProcessFunc(wItem[w]))]
            /\ wpc' = [wpc EXCEPT ![w] = "lock"]
            /\ UNCHANGED mainPc
    /\ UNCHANGED <<pipeVars, restVars, configVars, processed, processedMutex, itemCh,
                   itemChClosed,
                   errChClosed, wg, prodPc, prodIdx, prodPos, wItem, wCur,
                   erroredItems, retErr, progressLog>>

\* CanLock of a counter that is not protected by the mutex
CanLockAlways == TRUE

\* processedMutex.Lock() can return
CanLock == processedMutex = 0

\* c.processedMutex.Lock(), and the load of c.processed++
WorkerLock(w) ==
    /\ Alive
    /\ wpc[w] = "lock"
    /\ CanLock
    /\ processedMutex' = w
    /\ wCur' = [wCur EXCEPT ![w] = processed]
    /\ wpc' = [wpc EXCEPT ![w] = "incr"]
    /\ UNCHANGED <<pipeVars, restVars, configVars, processed, itemCh, itemChClosed,
                   errCh, errChClosed, wg,
                   mainPc, prodPc, prodIdx, prodPos, wItem, erroredItems,
                   retErr, calls, progressLog, errorLog>>

\* a % b of Go for a >= 0 and b # 0: the sign of b does not matter
GoRem(a, b) == IF b > 0 THEN a % b ELSE a % (0 - b)

\* the evaluation of currentProcessed%c.progressBatch panics: integer divide
\* by zero; the operand is only evaluated when progressFunc is not nil
NotifyFaults == progressFuncSet /\ progressBatch = 0

\* the condition of the progress notification
NotifyDue(currentProcessed) ==
    progressFuncSet /\ GoRem(currentProcessed, progressBatch) = 0

\* WorkerIncr of a worker that keeps the mutex while it notifies
WorkerIncrKeepsLock(w) ==
    /\ Alive
    /\ wpc[w] = "incr"
    /\ processed' = wCur[w] + 1
    /\ wCur' = [wCur EXCEPT ![w] = wCur[w] + 1]
    /\ wpc' = [wpc EXCEPT ![w] = IF NotifyDue(wCur[w] + 1) THEN "notify" ELSE "recv"]
    /\ UNCHANGED <<pipeVars, restVars, configVars, processedMutex, itemCh, itemChClosed, errCh,
                   errChClosed, wg, mainPc, prodPc, prodIdx, prodPos, wItem,
                   erroredItems, retErr, calls, progressLog, errorLog>>

\* the store of c.processed++, currentProcessed := c.processed, Unlock(), and
\* the evaluation of the condition of the progress notification
WorkerIncr(w) ==
    /\ Alive
    /\ wpc[w] = "incr"
    /\ processed' = wCur[w] + 1
    /\ wCur' = [wCur EXCEPT ![w] = wCur[w] + 1]
    /\ processedMutex' = IF processedMutex = w THEN 0 ELSE processedMutex
    /\ IF NotifyFaults
       THEN /\ mainPc' = "panicked"
            /\ wpc' = [wpc EXCEPT ![w] = "panicked"]
       ELSE /\ wpc' = [wpc EXCEPT ![w] =
                          IF NotifyDue(wCur[w] + 1) THEN "notify" ELSE "recv"]
            /\ UNCHANGED mainPc
    /\ UNCHANGED <<pipeVars, restVars, configVars, itemCh, itemChClosed, errCh,
                   errChClosed, wg,
                   prodPc, prodIdx, prodPos, wItem, erroredItems, retErr,
                   calls, progressLog, errorLog>>

\* c.progressFunc(currentProcessed, duration, itemsPerSecond)
WorkerNotify(w) ==
    /\ Alive
    /\ wpc[w] = "notify"
    /\ progressLog' = Append(progressLog, wCur[w])
    /\ wpc' = [wpc EXCEPT ![w] = "recv"]
    /\ UNCHANGED <<pipeVars, restVars, configVars, processed, processedMutex, itemCh,
                   itemChClosed, errCh,
                   errChClosed, wg, mainPc, prodPc, prodIdx, prodPos, wItem,
                   wCur, erroredItems, retErr, calls, errorLog>>

(* ---------------------- Process: after the spawns ---------------------- *)

\* a wg.Wait() that does not wait
WaitDoneAtOnce == TRUE

\* wg.Wait() can return
WaitDone == wg = 0

\* wg.Wait(); close(errCh)
MainCloseErr ==
    /\ mainPc = "wait"
    /\ WaitDone
    /\ errChClosed' = TRUE
    /\ mainPc' = "drain"
    /\ UNCHANGED <<pipeVars, restVars, configVars, processed, processedMutex, itemCh,
                   itemChClosed, errCh,
                   wg, prodPc, prodIdx, prodPos, wpc, wItem, wCur,
                   erroredItems, retErr, calls, progressLog, errorLog>>

\* the drain of errCh into erroredItems and the return
MainDrain ==
    /\ mainPc = "drain"
    /\ erroredItems' = errCh
    /\ errCh' = <<>>
    /\ retErr' = SummaryError(Len(errCh))
    /\ mainPc' = "done"
    /\ UNCHANGED <<pipeVars, restVars, configVars, processed, processedMutex, itemCh,
                   itemChClosed,
                   errChClosed, wg, prodPc, prodIdx, prodPos, wpc, wItem, wCur,
                   calls, progressLog, errorLog>>

(* -------------------------- the pool's machine ------------------------- *)

\* the queues a caller can construct and configure (NewParallelQueue and the
\* With.../On... setters)
InitQueueConfig ==
    /\ kind = "queue"
    /\ numberOfWorkers \in -1..MaxWorkers
    /\ itemsSet \in BOOLEAN
    /\ items \in {[i \in 1..m |-> i] : m \in 0..MaxItems}
    /\ ~itemsSet => items = <<>>
    /\ filePath = ""
    /\ fileOpens = FALSE
    /\ content = <<>>
    /\ readFaultAt = -1
    /\ failing \in SUBSET (1..Len(items))

\* the number of lines ReadBytes delivers from the file: one per line feed
\* the reader gets to
NumLines == Cardinality({j \in 1..Len(Available) : Available[j] = LF})

\* the file processors a caller can construct and configure
InitFileConfig ==
    /\ kind = "file"
    /\ numberOfWorkers \in -1..MaxWorkers
    /\ itemsSet = FALSE
    /\ items = <<>>
    /\ filePath \in {"", "path"}
    /\ fileOpens \in BOOLEAN
    /\ content \in SeqsUpTo(Bytes, MaxFileLen)
    /\ (filePath = "" \/ ~fileOpens) => content = <<>>
    /\ readFaultAt \in -1..Len(content)
    /\ failing \in SUBSET (1..NumLines)

NextPool ==
    \/ ProcessStart
    \/ ProducerSend
    \/ ProducerClose
    \/ \E w \in Workers : WorkerRecv(w)
    \/ \E w \in Workers : WorkerExit(w)
    \/ \E w \in Workers : WorkerProcess(w)
    \/ \E w \in Workers : WorkerLock(w)
    \/ \E w \in Workers : WorkerIncr(w)
    \/ \E w \in Workers : WorkerNotify(w)
    \/ MainCloseErr
    \/ MainDrain

(* ------------------------------ pipeline.go ---------------------------- *)

\* values of type any: nil, an int, or a []any
Nil == [t |-> "nil", n |-> 0, l |-> <<>>]
IntVal(k) == [t |-> "int", n |-> k, l |-> <<>>]
ListVal(s) == [t |-> "list", n |-> 0, l |-> s]
\* a string: k = 0 is "", the zero value
StrVal(k) == [t |-> "string", n |-> k, l |-> <<>>]

\* errors: "nil", the errors of the caller and of user steps, and errExit
ErrExit == "exit error"

\* what a call of a step does: it returns (out, err), or it panics
Ret(o, e) == [out |-> o, err |-> e, panic |-> FALSE]
Panic == [out |-> Nil, err |-> "nil", panic |-> TRUE]

\* steps: a leaf (a wrapped function f) or a composer over steps
Leaf(f) == [k |-> "leaf", f |-> f, steps |-> <<>>]
InSequence(steps) == [k |-> "seq", f |-> "", steps |-> steps]
InParallel(steps) == [k |-> "par", f |-> "", steps |-> steps]

\* the zero value of a type
ZeroValue(T) ==
    CASE T = "int" -> IntVal(0)
      [] T = "string" -> StrVal(0)
      [] T = "list" -> ListVal(<<>>)
      [] OTHER -> Nil

\* AssertIn[T](input): the zero value for nil, the value when its type is T,
\* else a panic
AssertIn(T, in) ==
    IF in = Nil THEN [ok |-> TRUE, v |-> ZeroValue(T)]
    ELSE IF T = "any" \/ in.t = T THEN [ok |-> TRUE, v |-> in]
    ELSE [ok |-> FALSE, v |-> Nil]

\* AsPipelineStep(addOneStep): func(input int, err error) (int, error)
AddOneStep(in, prior) ==
    LET a == AssertIn("int", in)
    IN  IF a.ok THEN Ret(IntVal(a.v.n + 1), "nil") ELSE Panic

\* AsPipelineStep(double): return input * 2, err
DoubleStep(in, prior) ==
    LET a == AssertIn("int", in)
    IN  IF a.ok THEN Ret(IntVal(a.v.n * 2), prior) ELSE Panic

\* a step that fails: return nil, errors.New(...)
FailingStep(e) == Ret(Nil, e)

\* AsPipelineGenerator(intGenerator): the input and the prior error are ignored
GeneratorStep == Ret(IntVal(10), "nil")

\* an ExitOnErrorStep that exits whatever the prior error is
ExitOnErrorStepAlways(in, prior) == Ret(Nil, ErrExit)

\* ExitOnErrorStep()
ExitOnErrorStep(in, prior) ==
    LET a == AssertIn("any", in)
    IN  IF prior # "nil" THEN Ret(Nil, ErrExit) ELSE Ret(a.v, "nil")

\* TakeFirstStep[any](1): ids[:1], which panics on an empty slice
TakeFirstStep(in, prior) ==
    LET a == AssertIn("list", in)
    IN  IF a.ok /\ Len(a.v.l) >= 1 THEN Ret(ListVal(<<a.v.l[1]>>), prior) ELSE Panic

\* a call of a leaf step
LeafApply(f, in, prior) ==
    CASE f = "addOne" -> AddOneStep(in, prior)
      [] f = "double" -> DoubleStep(in, prior)
      [] f = "failA" -> FailingStep("E1")
      [] f = "failB" -> FailingStep("E2")
      [] f = "gen" -> GeneratorStep
      [] f = "exit" -> ExitOnErrorStep(in, prior)
      [] f = "takeFirst" -> TakeFirstStep(in, prior)

\* a check that never finds the exit marker
IsExitNever(e) == FALSE

\* a check that takes every error for the exit marker
IsExitAnyError(e) == e # "nil"

\* a check that also takes the error E1 of a user step for the exit marker
IsExitOrUserError(e) == e = ErrExit \/ e = "E1"

\* currentErr != nil && errors.Is(currentErr, errExit)
IsExit(e) == e # "nil" /\ e = ErrExit

\* every step is given the input of the sequence
StepInputOriginal(cur, in) == in

\* the argument InSequence passes to the next step: currentInput
StepInput(cur, in) == cur

\* the write lands in the last slot
WriteResultLast(res, index, out) == [res EXCEPT ![Len(res)] = out]

\* results[index] = out
WriteResult(res, index, out) == [res EXCEPT ![index] = out]

\* the cases of InParallel's select that can proceed
SelectReady(ch, closed) ==
    (IF Len(ch) > 0 THEN {"errCh"} ELSE {}) \cup (IF closed THEN {"done"} ELSE {})

RECURSIVE Outcomes(_, _, _), SeqOutcomes(_, _, _, _), ParOutcomes(_, _, _)

\* what a call step(in, prior) can do, for a step nested in the invoked composer
Outcomes(step, in, prior) ==
    CASE step.k = "leaf" -> {LeafApply(step.f, in, prior)}
      [] step.k = "seq" -> SeqOutcomes(step.steps, 1, in, prior)
      [] step.k = "par" -> ParOutcomes(step.steps, in, prior)

\* SeqOutcomes of an InSequence that returns the exit marker to its caller
SeqOutcomesLeaksExit(steps, i, cur, e) ==
    IF i > Len(steps) THEN {Ret(cur, e)}
    ELSE UNION {
        IF o.panic THEN {Panic}
        ELSE IF IsExit(o.err) THEN {Ret(Nil, o.err)}
        ELSE SeqOutcomes(steps, i + 1, o.out, o.err)
        : o \in Outcomes(steps[i], cur, e)}

\* InSequence from its i-th step on, with currentInput = cur and
\* currentErr = beforeExitErr = e
SeqOutcomes(steps, i, cur, e) ==
    IF i > Len(steps) THEN {Ret(cur, e)}
    ELSE UNION {
        IF o.panic THEN {Panic}
        ELSE IF IsExit(o.err) THEN {Ret(Nil, e)}
        ELSE SeqOutcomes(steps, i + 1, o.out, o.err)
        : o \in Outcomes(steps[i], cur, e)}

\* InParallel: every branch is called with (in, prior); the select returns an
\* error a branch sent, or the results once every branch is done; a branch that
\* panics ends the program
ParOutcomes(steps, in, prior) ==
    IF Len(steps) = 0 THEN {Ret(Nil, "nil")}
    ELSE LET n == Len(steps)
             O == [i \in 1..n |-> Outcomes(steps[i], in, prior)]
             Vecs == {v \in [1..n -> UNION {O[i] : i \in 1..n}] :
                         \A i \in 1..n : v[i] \in O[i]}
             Failed(v) == {i \in 1..n : ~v[i].panic /\ v[i].err # "nil"}
             Of(v) == {Ret(Nil, v[i].err) : i \in Failed(v)} \cup
                      (IF \E i \in 1..n : v[i].panic
                       THEN {Panic}
                       ELSE {Ret(ListVal([i \in 1..n |->
                                    IF i \in Failed(v) THEN Nil ELSE v[i].out]), "nil")})
         IN  UNION {Of(v) : v \in Vecs}

(* ------------------------- InSequence, step by step -------------------- *)

Steps == pipeline.steps

\* SeqBegin of an InSequence that starts from a nil error
SeqBeginDropsPriorError ==
    /\ pipePc = "start"
    /\ pipeline.k = "seq"
    /\ currentInput' = input
    /\ currentErr' = "nil"
    /\ beforeExitErr' = "nil"
    /\ pipePc' = "loop"
    /\ UNCHANGED <<poolVars, restVars, pipeline, input, lastErr, branchCalls, reported,
                   panicked,
                   stepIdx, invoked, results, parErrCh, parWg, doneClosed, bpc, bOut,
                   pipeOut, pipeErr>>

\* the invoked step is InSequence(...): the locals are set
SeqBegin ==
    /\ pipePc = "start"
    /\ pipeline.k = "seq"
    /\ currentInput' = input
    /\ currentErr' = lastErr
    /\ beforeExitErr' = lastErr
    /\ pipePc' = "loop"
    /\ UNCHANGED <<poolVars, restVars, pipeline, input, lastErr, branchCalls, reported,
                   panicked, stepIdx, invoked,
                   results, parErrCh, parWg, doneClosed, bpc, bOut, pipeOut, pipeErr>>

\* one iteration of the range loop: the call of the step, the check for errExit
SeqStep ==
    /\ pipePc = "loop"
    /\ stepIdx < Len(Steps)
    /\ \E o \in Outcomes(Steps[stepIdx + 1], StepInput(currentInput, input), currentErr) :
        /\ invoked' = Append(invoked,
               [i |-> stepIdx + 1,
                in |-> StepInput(currentInput, input), prior |-> currentErr,
                out |-> o.out, err |-> o.err, panic |-> o.panic])
        /\ IF o.panic
           THEN /\ panicked' = TRUE
                /\ pipePc' = "panicked"
                /\ UNCHANGED <<currentInput, currentErr, beforeExitErr, stepIdx,
                               pipeOut, pipeErr>>
           ELSE /\ currentInput' = o.out
                /\ currentErr' = o.err
                /\ IF IsExit(o.err)
                   THEN /\ pipeOut' = Nil
                        /\ pipeErr' = beforeExitErr
                        /\ pipePc' = "returned"
                        /\ UNCHANGED <<beforeExitErr, stepIdx>>
                   ELSE /\ beforeExitErr' = o.err
                        /\ stepIdx' = stepIdx + 1
                        /\ UNCHANGED <<pipeOut, pipeErr, pipePc>>
                /\ UNCHANGED panicked
    /\ UNCHANGED <<poolVars, restVars, pipeline, input, lastErr, branchCalls, reported,
                   results, parErrCh, parWg,
                   doneClosed, bpc, bOut>>

\* return currentInput, currentErr
SeqReturn ==
    /\ pipePc = "loop"
    /\ stepIdx = Len(Steps)
    /\ pipeOut' = currentInput
    /\ pipeErr' = currentErr
    /\ pipePc' = "returned"
    /\ UNCHANGED <<poolVars, restVars, pipeline, input, lastErr, branchCalls, reported,
                   panicked, currentInput,
                   currentErr, beforeExitErr, stepIdx, invoked, results, parErrCh,
                   parWg, doneClosed, bpc, bOut>>

(* ------------------- InParallel, goroutine by goroutine ---------------- *)

\* the branch goroutines that were spawned
Branches == 1..Len(bpc)

\* ParBegin of an InParallel without the early return for no steps
ParBeginNoEarlyReturn ==
    /\ pipePc = "start"
    /\ pipeline.k = "par"
    /\ results' = [i \in 1..Len(Steps) |-> Nil]
    /\ branchCalls' = [i \in 1..Len(Steps) |-> <<>>]
    /\ parWg' = Len(Steps)
    /\ bpc' = [i \in 1..Len(Steps) |-> "ready"]
    /\ bOut' = [i \in 1..Len(Steps) |-> Ret(Nil, "nil")]
    /\ pipePc' = "select"
    /\ UNCHANGED <<poolVars, restVars, pipeline, input, lastErr, reported, panicked,
                   currentInput,
                   currentErr, beforeExitErr, stepIdx, invoked, parErrCh, doneClosed,
                   pipeOut, pipeErr>>

\* the invoked step is InParallel(...): the early return for no steps, else the
\* results slice, errCh, wg.Add and the spawns of the branches and of the waiter
ParBegin ==
    /\ pipePc = "start"
    /\ pipeline.k = "par"
    /\ IF Len(Steps) = 0
       THEN /\ pipeOut' = Nil
            /\ pipeErr' = "nil"
            /\ pipePc' = "returned"
            /\ UNCHANGED <<results, parWg, bpc, bOut, branchCalls>>
       ELSE /\ results' = [i \in 1..Len(Steps) |-> Nil]
            /\ branchCalls' = [i \in 1..Len(Steps) |-> <<>>]
            /\ parWg' = Len(Steps)
            /\ bpc' = [i \in 1..Len(Steps) |-> "ready"]
            /\ bOut' = [i \in 1..Len(Steps) |-> Ret(Nil, "nil")]
            /\ pipePc' = "select"
            /\ UNCHANGED <<pipeOut, pipeErr>>
    /\ UNCHANGED <<poolVars, restVars, pipeline, input, lastErr, reported, panicked,
                   currentInput,
                   currentErr, beforeExitErr, stepIdx, invoked, parErrCh, doneClosed>>

\* a branch that is given the output of the branch declared before it
BranchInputFromPrevious(i) ==
    IF i > 1 /\ bpc[i - 1] \in {"running", "deferred", "done"}
    THEN bOut[i - 1].out
    ELSE input

\* the input a branch passes to its step: the closure's `input`
BranchInput(i) == input

\* the prior error a branch passes to its step: the closure's `lastErr`
BranchPrior(i) == lastErr

\* out, stepErr := s(input, lastErr): the call is made
BranchInvoke(i) ==
    /\ ~panicked
    /\ bpc[i] = "ready"
    /\ branchCalls' = [branchCalls EXCEPT ![i] =
                          Append(@, [in |-> BranchInput(i), prior |-> BranchPrior(i)])]
    /\ \E o \in Outcomes(Steps[i], BranchInput(i), BranchPrior(i)) :
        IF o.panic
        THEN /\ panicked' = TRUE
             /\ bpc' = [bpc EXCEPT ![i] = "panicked"]
             /\ UNCHANGED bOut
        ELSE /\ bOut' = [bOut EXCEPT ![i] = o]
             /\ bpc' = [bpc EXCEPT ![i] = "running"]
             /\ UNCHANGED panicked
    /\ UNCHANGED <<poolVars, restVars, pipeline, input, lastErr, reported, pipePc,
                   currentInput,
                   currentErr, beforeExitErr, stepIdx, invoked, results, parErrCh, parWg,
                   doneClosed, pipeOut, pipeErr>>

\* an error channel one slot short of the number of steps
ParErrChCapShort == Len(Steps) - 1

\* capacity of errCh: make(chan error, numSteps)
ParErrChCap == Len(Steps)

\* the call has returned: the non-blocking send of the error, or the write of
\* the result
BranchReturn(i) ==
    /\ ~panicked
    /\ bpc[i] = "running"
    /\ IF bOut[i].err # "nil"
       THEN /\ parErrCh' = IF Len(parErrCh) < ParErrChCap
                           THEN Append(parErrCh, bOut[i].err)
                           ELSE parErrCh
            /\ reported' = IF Len(parErrCh) < ParErrChCap
                           THEN Append(reported, i)
                           ELSE reported
            /\ UNCHANGED results
       ELSE /\ results' = WriteResult(results, i, bOut[i].out)
            /\ UNCHANGED <<parErrCh, reported>>
    /\ bpc' = [bpc EXCEPT ![i] = "deferred"]
    /\ UNCHANGED <<poolVars, restVars, pipeline, input, lastErr, branchCalls, pipePc, panicked,
                   currentInput, currentErr, beforeExitErr, stepIdx, invoked, parWg,
                   doneClosed, bOut, pipeOut, pipeErr>>

\* defer wg.Done()
BranchDone(i) ==
    /\ ~panicked
    /\ bpc[i] = "deferred"
    /\ parWg' = parWg - 1
    /\ bpc' = [bpc EXCEPT ![i] = "done"]
    /\ UNCHANGED <<poolVars, restVars, pipeline, input, lastErr, branchCalls, reported,
                   pipePc, panicked, currentInput,
                   currentErr, beforeExitErr, stepIdx, invoked, results, parErrCh,
                   doneClosed, bOut, pipeOut, pipeErr>>

\* WaiterClose of a waiter that stops waiting when the first branch is done
WaiterClosesAfterFirst ==
    /\ ~panicked
    /\ Len(bpc) > 0
    /\ parWg < Len(bpc)
    /\ ~doneClosed
    /\ doneClosed' = TRUE
    /\ UNCHANGED <<poolVars, restVars, pipeline, input, lastErr, branchCalls, reported, pipePc,
                   panicked, currentInput, currentErr, beforeExitErr, stepIdx, invoked,
                   results, parErrCh, parWg, bpc, bOut, pipeOut, pipeErr>>

\* the waiter goroutine: wg.Wait(); close(done)
WaiterClose ==
    /\ ~panicked
    /\ Len(bpc) > 0
    /\ parWg = 0
    /\ ~doneClosed
    /\ doneClosed' = TRUE
    /\ UNCHANGED <<poolVars, restVars, pipeline, input, lastErr, branchCalls, reported,
                   pipePc, panicked, currentInput,
                   currentErr, beforeExitErr, stepIdx, invoked, results, parErrCh,
                   parWg, bpc, bOut, pipeOut, pipeErr>>

\* the select takes `case stepErr := <-errCh`
ParSelectErr ==
    /\ ~panicked
    /\ pipePc = "select"
    /\ "errCh" \in SelectReady(parErrCh, doneClosed)
    /\ pipeOut' = Nil
    /\ pipeErr' = Head(parErrCh)
    /\ parErrCh' = Tail(parErrCh)
    /\ pipePc' = "returned"
    /\ UNCHANGED <<poolVars, restVars, pipeline, input, lastErr, branchCalls, reported,
                   panicked, currentInput,
                   currentErr, beforeExitErr, stepIdx, invoked, results, parWg,
                   doneClosed, bpc, bOut>>

\* the select takes `case <-done`
ParSelectDone ==
    /\ ~panicked
    /\ pipePc = "select"
    /\ "done" \in SelectReady(parErrCh, doneClosed)
    /\ pipeOut' = ListVal(results)
    /\ pipeErr' = "nil"
    /\ pipePc' = "returned"
    /\ UNCHANGED <<poolVars, restVars, pipeline, input, lastErr, branchCalls, reported,
                   panicked, currentInput,
                   currentErr, beforeExitErr, stepIdx, invoked, results, parErrCh,
                   parWg, doneClosed, bpc, bOut>>

\* the invoked step is a wrapped function
LeafCall ==
    /\ pipePc = "start"
    /\ pipeline.k = "leaf"
    /\ LET o == LeafApply(pipeline.f, input, lastErr)
       IN  IF o.panic
           THEN /\ panicked' = TRUE
                /\ pipePc' = "panicked"
                /\ UNCHANGED <<pipeOut, pipeErr>>
           ELSE /\ pipeOut' = o.out
                /\ pipeErr' = o.err
                /\ pipePc' = "returned"
                /\ UNCHANGED panicked
    /\ UNCHANGED <<poolVars, restVars, pipeline, input, lastErr, branchCalls, reported,
                   currentInput, currentErr,
                   beforeExitErr, stepIdx, invoked, results, parErrCh, parWg,
                   doneClosed, bpc, bOut>>

(* ------------------------ the pipeline's machine ----------------------- *)

LeafNames == {"addOne", "double", "failA", "failB", "gen", "exit", "takeFirst"}

\* composed steps that are used as steps of the invoked composer
NestedSteps ==
    {InSequence(<<Leaf("failA"), Leaf("exit"), Leaf("addOne")>>),
     InParallel(<<Leaf("exit")>>),
     InParallel(<<Leaf("addOne"), Leaf("double")>>),
     InParallel(<<InSequence(<<Leaf("failB"), Leaf("exit")>>), Leaf("exit")>>)}

\* the steps an invoked InSequence is built from
StepPool == {Leaf(f) : f \in LeafNames} \cup NestedSteps

\* the steps an invoked InParallel is built from
BranchPool ==
    {Leaf(f) : f \in {"addOne", "double", "failA", "failB", "exit"}} \cup
    {InSequence(<<Leaf("failA"), Leaf("exit"), Leaf("addOne")>>),
     InParallel(<<Leaf("exit")>>)}

Pipelines ==
    {InSequence(s) : s \in SeqsUpTo(StepPool, MaxSteps)} \cup
    {InParallel(s) : s \in SeqsUpTo(BranchPool, MaxBranches)} \cup
    {Leaf(f) : f \in LeafNames}

\* no panic value
NoPanic == [format |-> "", expected |-> "", got |-> ""]

\* no helper step is called
StepIdle ==
    /\ fn = [name |-> "none", T |-> "any", start |-> 0, end |-> 0]
    /\ fnInput = Nil
    /\ fnLastErr = "nil"
    /\ fnPc = "idle"
    /\ fnOut = Nil
    /\ fnErr = "nil"
    /\ fnPanic = NoPanic
    /\ fnWrapped = <<>>

\* no RoundRobin is constructed
RotatorIdle ==
    /\ rrCreated = FALSE
    /\ rrItems = <<>>
    /\ rrIndex = 0
    /\ rrMu = 0
    /\ rrPc = <<>>
    /\ rrItem = <<>>
    /\ rrLog = <<>>

\* nothing but the component under study runs
\* no execution runs beside another
ConcIdle == execs = <<>> /\ xResults = <<>>

RestIdle == StepIdle /\ RotatorIdle /\ runs = <<>> /\ ConcIdle

\* no worker pool is run
PoolIdle ==
    /\ kind = "none"
    /\ numberOfWorkers = 0
    /\ itemsSet = FALSE
    /\ items = <<>>
    /\ filePath = ""
    /\ fileOpens = FALSE
    /\ content = <<>>
    /\ readFaultAt = -1
    /\ processFuncSet = FALSE
    /\ failing = {}
    /\ progressBatch = DefaultBatch
    /\ progressFuncSet = FALSE
    /\ errorFuncSet = FALSE
    /\ processed = 0
    /\ processedMutex = 0
    /\ itemCh = <<>>
    /\ itemChClosed = FALSE
    /\ errCh = <<>>
    /\ errChClosed = FALSE
    /\ wg = 0
    /\ mainPc = "idle"
    /\ prodPc = "idle"
    /\ prodIdx = 0
    /\ prodPos = 0
    /\ wpc = <<>>
    /\ wItem = <<>>
    /\ wCur = <<>>
    /\ erroredItems = <<>>
    /\ retErr = NoError
    /\ calls = <<>>
    /\ progressLog = <<>>
    /\ errorLog = <<>>

\* no pipeline is invoked
PipelineIdle ==
    /\ pipeline = Leaf("gen")
    /\ input = Nil
    /\ lastErr = "nil"
    /\ pipePc = "idle"
    /\ panicked = FALSE
    /\ currentInput = Nil
    /\ currentErr = "nil"
    /\ beforeExitErr = "nil"
    /\ stepIdx = 0
    /\ invoked = <<>>
    /\ results = <<>>
    /\ parErrCh = <<>>
    /\ parWg = 0
    /\ doneClosed = FALSE
    /\ bpc = <<>>
    /\ bOut = <<>>
    /\ branchCalls = <<>>
    /\ reported = <<>>
    /\ pipeOut = Nil
    /\ pipeErr = "nil"

\* a composed step is invoked with an input and a prior error; Execute invokes
\* it with (nil, nil)
InitPipeline ==
    /\ PoolIdle
    /\ RestIdle
    /\ pipeline \in Pipelines
    /\ input \in {Nil, IntVal(1)}
    /\ lastErr \in {"nil", "E0"}
    /\ pipePc = "start"
    /\ panicked = FALSE
    /\ currentInput = Nil
    /\ currentErr = "nil"
    /\ beforeExitErr = "nil"
    /\ stepIdx = 0
    /\ invoked = <<>>
    /\ results = <<>>
    /\ parErrCh = <<>>
    /\ parWg = 0
    /\ doneClosed = FALSE
    /\ bpc = <<>>
    /\ bOut = <<>>
    /\ branchCalls = <<>>
    /\ reported = <<>>
    /\ pipeOut = Nil
    /\ pipeErr = "nil"

NextPipeline ==
    \/ SeqBegin
    \/ SeqStep
    \/ SeqReturn
    \/ ParBegin
    \/ \E i \in Branches : BranchInvoke(i)
    \/ \E i \in Branches : BranchReturn(i)
    \/ \E i \in Branches : BranchDone(i)
    \/ WaiterClose
    \/ ParSelectErr
    \/ ParSelectDone
    \/ LeafCall

(* ------------------ pipeline.go: calls of helper steps ------------------ *)

\* the type arguments a step is built with: int, string, []any, any, and an
\* interface type with methods that none of the values implements
Types == {"int", "string", "list", "any", "Stringer"}

\* what the verb %T prints for a value: the name of its dynamic type, <nil>
\* for the nil interface value
GoTypeName(v) ==
    CASE v.t = "nil" -> "<nil>"
      [] v.t = "int" -> "int"
      [] v.t = "string" -> "string"
      [] v.t = "list" -> "[]interface {}"

\* fmt.Sprintf("expected type %T, got %T", zeroValue, input)
MismatchMessage(T, in) ==
    [format |-> "expected type %T, got %T",
     expected |-> GoTypeName(ZeroValue(T)),
     got |-> GoTypeName(in)]

\* the runtime panic of a slice expression
SliceBoundsPanic ==
    [format |-> "runtime error: slice bounds out of range", expected |-> "", got |-> ""]

\* ids[a:b] on a slice whose capacity is its length
Slice(ids, a, b) ==
    IF 0 <= a /\ a <= b /\ b <= Len(ids)
    THEN [ok |-> TRUE, v |-> SubSeq(ids, a + 1, b)]
    ELSE [ok |-> FALSE, v |-> <<>>]

\* a step made by AsPipelineStep[I, I] from a function that returns its
\* arguments is called
CallAsPipelineStep ==
    /\ fnPc = "start"
    /\ fn.name = "AsPipelineStep"
    /\ LET a == AssertIn(fn.T, fnInput)
       IN  IF ~a.ok
           THEN /\ fnPc' = "panicked"
                /\ fnPanic' = MismatchMessage(fn.T, fnInput)
                /\ UNCHANGED <<fnOut, fnErr, fnWrapped>>
           ELSE /\ fnWrapped' = Append(fnWrapped, [in |-> a.v, prior |-> fnLastErr])
                /\ fnOut' = a.v
                /\ fnErr' = fnLastErr
                /\ fnPc' = "returned"
                /\ UNCHANGED fnPanic
    /\ UNCHANGED <<poolVars, pipeVars, rotVars, runs, concVars, fn, fnInput, fnLastErr>>

\* a step made by TakeSubsetStep[any](start, end) is called
CallTakeSubsetStep ==
    /\ fnPc = "start"
    /\ fn.name = "TakeSubsetStep"
    /\ LET a == AssertIn("list", fnInput)
           ids == a.v.l
           sub == Slice(ids, fn.start, fn.end)
       IN  IF ~a.ok
           THEN /\ fnPc' = "panicked"
                /\ fnPanic' = MismatchMessage("list", fnInput)
                /\ UNCHANGED <<fnOut, fnErr, fnWrapped>>
           ELSE /\ fnWrapped' = Append(fnWrapped, [in |-> a.v, prior |-> fnLastErr])
                /\ IF fn.start < 0 \/ fn.end > Len(ids)
                   THEN /\ fnOut' = ListVal(<<>>)
                        /\ fnErr' = "invalid range"
                        /\ fnPc' = "returned"
                        /\ UNCHANGED fnPanic
                   ELSE IF ~sub.ok
                   THEN /\ fnPc' = "panicked"
                        /\ fnPanic' = SliceBoundsPanic
                        /\ UNCHANGED <<fnOut, fnErr>>
                   ELSE /\ fnOut' = ListVal(sub.v)
                        /\ fnErr' = fnLastErr
                        /\ fnPc' = "returned"
                        /\ UNCHANGED fnPanic
    /\ UNCHANGED <<poolVars, pipeVars, rotVars, runs, concVars, fn, fnInput, fnLastErr>>

\* the inputs a helper step is called with
StepInputs ==
    {Nil, IntVal(0), IntVal(1), StrVal(1)} \cup
    {ListVal(l) : l \in SeqsUpTo({IntVal(1), IntVal(2)}, MaxListLen)}

\* the steps that are called
HelperSteps ==
    {[name |-> "AsPipelineStep", T |-> T, start |-> 0, end |-> 0] : T \in Types} \cup
    {[name |-> "TakeSubsetStep", T |-> "list", start |-> a, end |-> b] :
        a \in -1..(MaxListLen + 1), b \in -1..(MaxListLen + 1)}

\* a helper step is about to be called with an input and a prior error
InitStep ==
    /\ PoolIdle
    /\ PipelineIdle
    /\ RotatorIdle
    /\ runs = <<>>
    /\ ConcIdle
    /\ fn \in HelperSteps
    /\ fnInput \in StepInputs
    /\ fnLastErr \in {"nil", "E0"}
    /\ fnPc = "start"
    /\ fnOut = Nil
    /\ fnErr = "nil"
    /\ fnPanic = NoPanic
    /\ fnWrapped = <<>>

NextStep ==
    \/ CallAsPipelineStep
    \/ CallTakeSubsetStep

\* one call of a helper step
SpecStep == InitStep /\ [][NextStep]_vars

(* ---------------------- client_rotator.go: RoundRobin ------------------ *)

\* the values of the items
Clients == {"c1", "c2", "c3"}

\* the goroutines that call Next
Callers == 1..MaxCallers

\* a lock that excludes nobody
MuFreeAlways == TRUE

\* rr.mu can be acquired
MuFree == rrMu = 0

\* (rr.index + 1) % len(rr.items)
IndexAfter(i) == (i + 1) % Len(rrItems)

\* rr.mu.Lock()
NextLock(c) ==
    /\ rrCreated
    /\ rrPc[c] = "idle"
    /\ Len(rrLog) + Cardinality({d \in Callers : rrPc[d] = "locked"}) < MaxNextCalls
    /\ MuFree
    /\ rrMu' = c
    /\ rrPc' = [rrPc EXCEPT ![c] = "locked"]
    /\ UNCHANGED <<poolVars, pipeVars, stepVars, runs, concVars,
                   rrCreated, rrItems, rrIndex,
                   rrItem, rrLog>>

\* item := rr.items[rr.index]
NextTake(c) ==
    /\ rrPc[c] = "locked"
    /\ IF rrIndex < 0 \/ rrIndex >= Len(rrItems)
       THEN /\ rrPc' = [rrPc EXCEPT ![c] = "panicked"]
            /\ UNCHANGED <<rrItem, rrLog>>
       ELSE /\ rrItem' = [rrItem EXCEPT ![c] = rrItems[rrIndex + 1]]
            /\ rrLog' = Append(rrLog, [by |-> c, idx |-> rrIndex,
                                       item |-> rrItems[rrIndex + 1]])
            /\ rrPc' = [rrPc EXCEPT ![c] = "taken"]
    /\ UNCHANGED <<poolVars, pipeVars, stepVars, runs, concVars,
                   rrCreated, rrItems, rrIndex, rrMu>>

\* rr.index = (rr.index + 1) % len(rr.items)
NextAdvance(c) ==
    /\ rrPc[c] = "taken"
    /\ rrIndex' = IndexAfter(rrIndex)
    /\ rrPc' = [rrPc EXCEPT ![c] = "advanced"]
    /\ UNCHANGED <<poolVars, pipeVars, stepVars, runs, concVars, rrCreated, rrItems, rrMu,
                   rrItem, rrLog>>

\* return item, and the deferred rr.mu.Unlock()
NextReturn(c) ==
    /\ rrPc[c] = "advanced"
    /\ rrMu' = 0
    /\ rrPc' = [rrPc EXCEPT ![c] = "idle"]
    /\ UNCHANGED <<poolVars, pipeVars, stepVars, runs, concVars,
                   rrCreated, rrItems, rrIndex,
                   rrItem, rrLog>>

\* the state after NewRoundRobin(items): no RoundRobin for an empty slice
InitRotator ==
    /\ PoolIdle
    /\ PipelineIdle
    /\ StepIdle
    /\ runs = <<>>
    /\ ConcIdle
    /\ rrItems \in SeqsUpTo(Clients, MaxRing)
    /\ rrCreated = (Len(rrItems) # 0)
    /\ rrIndex = 0
    /\ rrMu = 0
    /\ rrPc = [c \in Callers |-> "idle"]
    /\ rrItem = [c \in Callers |-> "none"]
    /\ rrLog = <<>>

NextRotator ==
    \E c \in Callers :
        \/ NextLock(c)
        \/ NextTake(c)
        \/ NextAdvance(c)
        \/ NextReturn(c)

\* goroutines calling Next on one RoundRobin
SpecRotator == InitRotator /\ [][NextRotator]_vars

(* --------------------- pipeline.go: repeated Execute ------------------- *)

\* arguments taken from what the last execution returned
ExecuteArgsFromLastRun == Ret(pipeOut, pipeErr)

\* Execute calls pipeline(nil, nil)
ExecuteArgs == Ret(Nil, "nil")

\* Execute has returned and is called again on the same composed pipeline: the
\* call gets new locals (results, errCh, wg, done, currentInput, currentErr);
\* goroutines an earlier InParallel left behind only reach the locals of their
\* own call
ExecuteAgain ==
    /\ pipePc = "returned"
    /\ Len(runs) + 1 < MaxRuns
    /\ runs' = Append(runs, Ret(pipeOut, pipeErr))
    /\ input' = ExecuteArgs.out
    /\ lastErr' = ExecuteArgs.err
    /\ pipePc' = "start"
    /\ panicked' = FALSE
    /\ currentInput' = Nil
    /\ currentErr' = "nil"
    /\ beforeExitErr' = "nil"
    /\ stepIdx' = 0
    /\ invoked' = <<>>
    /\ results' = <<>>
    /\ parErrCh' = <<>>
    /\ parWg' = 0
    /\ doneClosed' = FALSE
    /\ bpc' = <<>>
    /\ bOut' = <<>>
    /\ branchCalls' = <<>>
    /\ reported' = <<>>
    /\ pipeOut' = Nil
    /\ pipeErr' = "nil"
    /\ UNCHANGED <<poolVars, stepVars, rotVars, concVars, pipeline>>

\* the first Execute of a composed pipeline
InitExecute ==
    /\ PoolIdle
    /\ StepIdle
    /\ RotatorIdle
    /\ runs = <<>>
    /\ ConcIdle
    /\ pipeline \in Pipelines
    /\ pipeOut = Nil
    /\ pipeErr = "nil"
    /\ input = ExecuteArgs.out
    /\ lastErr = ExecuteArgs.err
    /\ pipePc = "start"
    /\ panicked = FALSE
    /\ currentInput = Nil
    /\ currentErr = "nil"
    /\ beforeExitErr = "nil"
    /\ stepIdx = 0
    /\ invoked = <<>>
    /\ results = <<>>
    /\ parErrCh = <<>>
    /\ parWg = 0
    /\ doneClosed = FALSE
    /\ bpc = <<>>
    /\ bOut = <<>>
    /\ branchCalls = <<>>
    /\ reported = <<>>

NextRepeat ==
    \/ NextPipeline
    \/ ExecuteAgain

\* one composed pipeline executed up to MaxRuns times
SpecRepeat == InitExecute /\ [][NextRepeat]_vars

(* ------------------ pqueue.go: Process called again -------------------- *)

\* ProcessAgain of a Process that starts its count at zero
ProcessAgainResets ==
    /\ mainPc = "done"
    /\ Len(runs) + 1 < MaxRuns
    /\ runs' = Append(runs, [processed |-> processed, err |-> retErr])
    /\ processed' = 0
    /\ mainPc' = "start"
    /\ itemCh' = <<>>
    /\ itemChClosed' = FALSE
    /\ errCh' = <<>>
    /\ errChClosed' = FALSE
    /\ wg' = 0
    /\ prodPc' = "idle"
    /\ prodIdx' = 0
    /\ prodPos' = 0
    /\ wpc' = [w \in Workers |-> "idle"]
    /\ wItem' = [w \in Workers |-> NoItem]
    /\ wCur' = [w \in Workers |-> 0]
    /\ erroredItems' = <<>>
    /\ retErr' = NoError
    /\ calls' = [i \in DOMAIN calls |-> 0]
    /\ progressLog' = <<>>
    /\ errorLog' = [i \in DOMAIN errorLog |-> <<>>]
    /\ UNCHANGED <<pipeVars, stepVars, rotVars, concVars, configVars, processedMutex>>

\* Process has returned and is called again on the same ParallelQueue: the
\* channels, the wait group and the error-set are locals of the call, the
\* fields of the queue (processed among them) are left as they are; the logs
\* of the notifiers start anew
ProcessAgain ==
    /\ mainPc = "done"
    /\ Len(runs) + 1 < MaxRuns
    /\ runs' = Append(runs, [processed |-> processed, err |-> retErr])
    /\ processed' = processed
    /\ mainPc' = "start"
    /\ itemCh' = <<>>
    /\ itemChClosed' = FALSE
    /\ errCh' = <<>>
    /\ errChClosed' = FALSE
    /\ wg' = 0
    /\ prodPc' = "idle"
    /\ prodIdx' = 0
    /\ prodPos' = 0
    /\ wpc' = [w \in Workers |-> "idle"]
    /\ wItem' = [w \in Workers |-> NoItem]
    /\ wCur' = [w \in Workers |-> 0]
    /\ erroredItems' = <<>>
    /\ retErr' = NoError
    /\ calls' = [i \in DOMAIN calls |-> 0]
    /\ progressLog' = <<>>
    /\ errorLog' = [i \in DOMAIN errorLog |-> <<>>]
    /\ UNCHANGED <<pipeVars, stepVars, rotVars, concVars, configVars, processedMutex>>

\* a ParallelQueue that passes the checks of Process and whose process function
\* fails on no item
InitReuse ==
    /\ InitQueueConfig
    /\ itemsSet
    /\ Len(items) >= 1
    /\ failing = {}
    /\ numberOfWorkers >= 1
    /\ processFuncSet = TRUE
    /\ progressFuncSet \in BOOLEAN
    /\ progressBatch \in (1..MaxBatch) \cup {DefaultBatch}
    /\ ~progressFuncSet => progressBatch = DefaultBatch
    /\ errorFuncSet = FALSE
    /\ processed = 0
    /\ processedMutex = 0
    /\ itemCh = <<>>
    /\ itemChClosed = FALSE
    /\ errCh = <<>>
    /\ errChClosed = FALSE
    /\ wg = 0
    /\ mainPc = "start"
    /\ prodPc = "idle"
    /\ prodIdx = 0
    /\ prodPos = 0
    /\ wpc = [w \in Workers |-> "idle"]
    /\ wItem = [w \in Workers |-> NoItem]
    /\ wCur = [w \in Workers |-> 0]
    /\ erroredItems = <<>>
    /\ retErr = NoError
    /\ calls = [i \in 1..Len(items) |-> 0]
    /\ progressLog = <<>>
    /\ errorLog = [i \in 1..Len(items) |-> <<>>]
    /\ PipelineIdle
    /\ StepIdle
    /\ RotatorIdle
    /\ runs = <<>>
    /\ ConcIdle

NextReuse ==
    \/ NextPool
    \/ ProcessAgain

\* up to MaxRuns sequential runs of Process on one ParallelQueue
SpecReuse == InitReuse /\ [][NextReuse]_vars

(* --------------- pipeline.go: two executions side by side -------------- *)

\* the two executions
Execs == {"a", "b"}

\* an execution that uses the results slice of execution "a"
ResultSliceOfFirst(e) == "a"

\* the results slice an execution of InParallel works on: the one its own call
\* made (results := make([]any, numSteps) is a local of the call)
ResultSlice(e) == e

\* a call of the composed step with its arguments, before its first statement
NewExecution(in, prior) ==
    [in |-> in, prior |-> prior, pc |-> "start", overlap |-> FALSE,
     cur |-> Nil, curErr |-> "nil", before |-> "nil", idx |-> 0,
     errCh |-> <<>>, wg |-> 0, done |-> FALSE, bpc |-> <<>>,
     out |-> Nil, err |-> "nil"]

\* no goroutine has panicked
NoneCrashed == \A e \in Execs : execs[e].pc # "panicked"

\* another execution is under way
OtherRuns(e) == \E d \in Execs \ {e} : execs[d].pc \in {"loop", "select"}

\* the first statements of the composed step: a wrapped function is called;
\* InSequence sets its locals; InParallel returns at once for no steps, else
\* makes results and errCh and spawns the branches and the waiter
XBegin(e) ==
    /\ NoneCrashed
    /\ execs[e].pc = "start"
    /\ IF pipeline.k = "leaf"
       THEN LET o == LeafApply(pipeline.f, execs[e].in, execs[e].prior)
            IN  /\ execs' = [execs EXCEPT ![e].pc = IF o.panic THEN "panicked" ELSE "returned",
                                          ![e].overlap = OtherRuns(e),
                                          ![e].out = o.out, ![e].err = o.err]
                /\ UNCHANGED xResults
       ELSE IF pipeline.k = "seq"
       THEN /\ execs' = [execs EXCEPT ![e].pc = "loop",
                                      ![e].overlap = OtherRuns(e),
                                      ![e].cur = execs[e].in,
                                      ![e].curErr = execs[e].prior,
                                      ![e].before = execs[e].prior]
            /\ UNCHANGED xResults
       ELSE IF Len(Steps) = 0
       THEN /\ execs' = [execs EXCEPT ![e].pc = "returned", ![e].overlap = OtherRuns(e)]
            /\ UNCHANGED xResults
       ELSE /\ execs' = [execs EXCEPT ![e].pc = "select",
                                      ![e].overlap = OtherRuns(e),
                                      ![e].wg = Len(Steps),
                                      ![e].bpc = [i \in 1..Len(Steps) |-> "ready"]]
            /\ xResults' = [xResults EXCEPT ![ResultSlice(e)] =
                               [i \in 1..Len(Steps) |-> Nil]]
    /\ UNCHANGED <<poolVars, pipeVars, stepVars, rotVars, runs>>

\* one iteration of the range loop of InSequence
XSeqStep(e) ==
    /\ NoneCrashed
    /\ execs[e].pc = "loop"
    /\ execs[e].idx < Len(Steps)
    /\ \E o \in Outcomes(Steps[execs[e].idx + 1], execs[e].cur, execs[e].curErr) :
          execs' =
              IF o.panic THEN [execs EXCEPT ![e].pc = "panicked"]
              ELSE IF IsExit(o.err)
              THEN [execs EXCEPT ![e].cur = o.out, ![e].curErr = o.err,
                                 ![e].out = Nil, ![e].err = execs[e].before,
                                 ![e].pc = "returned"]
              ELSE [execs EXCEPT ![e].cur = o.out, ![e].curErr = o.err,
                                 ![e].before = o.err, ![e].idx = execs[e].idx + 1]
    /\ UNCHANGED <<poolVars, pipeVars, stepVars, rotVars, runs, xResults>>

\* return currentInput, currentErr
XSeqReturn(e) ==
    /\ NoneCrashed
    /\ execs[e].pc = "loop"
    /\ execs[e].idx = Len(Steps)
    /\ execs' = [execs EXCEPT ![e].out = execs[e].cur, ![e].err = execs[e].curErr,
                              ![e].pc = "returned"]
    /\ UNCHANGED <<poolVars, pipeVars, stepVars, rotVars, runs, xResults>>

\* a branch goroutine up to its return: the call of its step, then the
\* non-blocking send of the error or the write of results[index]
XBranchRun(e, i) ==
    /\ NoneCrashed
    /\ execs[e].bpc[i] = "ready"
    /\ \E o \in Outcomes(Steps[i], execs[e].in, execs[e].prior) :
          IF o.panic
          THEN /\ execs' = [execs EXCEPT ![e].pc = "panicked"]
               /\ UNCHANGED xResults
          ELSE IF o.err # "nil"
          THEN /\ execs' = [execs EXCEPT
                              ![e].errCh = IF Len(@) < Len(Steps) THEN Append(@, o.err) ELSE @,
                              ![e].bpc[i] = "deferred"]
               /\ UNCHANGED xResults
          ELSE /\ execs' = [execs EXCEPT ![e].bpc[i] = "deferred"]
               /\ xResults' = [xResults EXCEPT ![ResultSlice(e)] =
                                  WriteResult(@, i, o.out)]
    /\ UNCHANGED <<poolVars, pipeVars, stepVars, rotVars, runs>>

\* defer wg.Done()
XBranchDone(e, i) ==
    /\ NoneCrashed
    /\ execs[e].bpc[i] = "deferred"
    /\ execs' = [execs EXCEPT ![e].bpc[i] = "done", ![e].wg = @ - 1]
    /\ UNCHANGED <<poolVars, pipeVars, stepVars, rotVars, runs, xResults>>

\* the waiter goroutine: wg.Wait(); close(done)
XWaiterClose(e) ==
    /\ NoneCrashed
    /\ Len(execs[e].bpc) > 0
    /\ execs[e].wg = 0
    /\ ~execs[e].done
    /\ execs' = [execs EXCEPT ![e].done = TRUE]
    /\ UNCHANGED <<poolVars, pipeVars, stepVars, rotVars, runs, xResults>>

\* the select takes `case stepErr := <-errCh`
XSelectErr(e) ==
    /\ NoneCrashed
    /\ execs[e].pc = "select"
    /\ "errCh" \in SelectReady(execs[e].errCh, execs[e].done)
    /\ execs' = [execs EXCEPT ![e].out = Nil, ![e].err = Head(execs[e].errCh),
                              ![e].errCh = Tail(@), ![e].pc = "returned"]
    /\ UNCHANGED <<poolVars, pipeVars, stepVars, rotVars, runs, xResults>>

\* the select takes `case <-done`
XSelectDone(e) ==
    /\ NoneCrashed
    /\ execs[e].pc = "select"
    /\ "done" \in SelectReady(execs[e].errCh, execs[e].done)
    /\ execs' = [execs EXCEPT ![e].out = ListVal(xResults[ResultSlice(e)]),
                              ![e].err = "nil", ![e].pc = "returned"]
    /\ UNCHANGED <<poolVars, pipeVars, stepVars, rotVars, runs, xResults>>

\* the steps the concurrently executed composers are built from
SharedBranchPool == {Leaf(f) : f \in {"addOne", "double", "failA"}}

SharedStepPool ==
    {Leaf(f) : f \in {"addOne", "failA", "exit"}} \cup
    {InParallel(<<Leaf("addOne"), Leaf("double")>>)}

SharedPipelines ==
    {InParallel(st) : st \in SeqsUpTo(SharedBranchPool, MaxBranches)} \cup
    {InSequence(st) : st \in SeqsUpTo(SharedStepPool, MaxSteps)} \cup
    {Leaf("addOne")}

\* one composed pipeline and two calls of it that have not started: the first
\* as Execute makes it, the second with either input
InitShared ==
    /\ PoolIdle
    /\ StepIdle
    /\ RotatorIdle
    /\ runs = <<>>
    /\ pipeline \in SharedPipelines
    /\ input = Nil
    /\ lastErr = "nil"
    /\ pipePc = "idle"
    /\ panicked = FALSE
    /\ currentInput = Nil
    /\ currentErr = "nil"
    /\ beforeExitErr = "nil"
    /\ stepIdx = 0
    /\ invoked = <<>>
    /\ results = <<>>
    /\ parErrCh = <<>>
    /\ parWg = 0
    /\ doneClosed = FALSE
    /\ bpc = <<>>
    /\ bOut = <<>>
    /\ branchCalls = <<>>
    /\ reported = <<>>
    /\ pipeOut = Nil
    /\ pipeErr = "nil"
    /\ \E v \in {Nil, IntVal(1)} :
          execs = [e \in Execs |-> NewExecution(IF e = "a" THEN Nil ELSE v, "nil")]
    /\ xResults = [e \in Execs |-> <<>>]

NextShared ==
    \E e \in Execs :
        \/ XBegin(e)
        \/ XSeqStep(e)
        \/ XSeqReturn(e)
        \/ \E i \in 1..Len(execs[e].bpc) : XBranchRun(e, i)
        \/ \E i \in 1..Len(execs[e].bpc) : XBranchDone(e, i)
        \/ XWaiterClose(e)
        \/ XSelectErr(e)
        \/ XSelectDone(e)

\* two executions of one composed pipeline, interleaved in every way
SpecShared == InitShared /\ [][NextShared]_vars

(* --------------------------- specifications ---------------------------- *)

\* a pool as its constructor and setters leave it, before Process is called:
\* the default batch without a progress notifier, a batch of 1..MaxBatch with
\* one
InitPool ==
    /\ InitQueueConfig \/ InitFileConfig
    /\ processFuncSet \in BOOLEAN
    /\ progressFuncSet \in BOOLEAN
    /\ progressBatch \in (1..MaxBatch) \cup {DefaultBatch}
    /\ progressFuncSet <=> progressBatch # DefaultBatch
    /\ errorFuncSet \in BOOLEAN
    /\ processed = 0
    /\ processedMutex = 0
    /\ itemCh = <<>>
    /\ itemChClosed = FALSE
    /\ errCh = <<>>
    /\ errChClosed = FALSE
    /\ wg = 0
    /\ mainPc = "start"
    /\ prodPc = "idle"
    /\ prodIdx = 0
    /\ prodPos = 0
    /\ wpc = [w \in Workers |-> "idle"]
    /\ wItem = [w \in Workers |-> NoItem]
    /\ wCur = [w \in Workers |-> 0]
    /\ erroredItems = <<>>
    /\ retErr = NoError
    /\ calls = [i \in 1..(IF kind = "queue" THEN Len(items) ELSE Len(content)) |-> 0]
    /\ progressLog = <<>>
    /\ errorLog = [i \in 1..(IF kind = "queue" THEN Len(items) ELSE Len(content)) |-> <<>>]
    /\ PipelineIdle
    /\ RestIdle

\* a pool that passes the checks of Process and whose process function fails
\* on no item, with a batch size of any sign given to WithProgressNotifier,
\* with or without a notifier
InitBatch ==
    /\ \/ /\ InitQueueConfig
          /\ itemsSet
          /\ Len(items) >= 1
       \/ /\ InitFileConfig
          /\ filePath = "path"
          /\ fileOpens
    /\ numberOfWorkers >= 1
    /\ failing = {}
    /\ processFuncSet = TRUE
    /\ progressFuncSet \in BOOLEAN
    /\ progressBatch \in -1..MaxBatch
    /\ errorFuncSet = FALSE
    /\ processed = 0
    /\ processedMutex = 0
    /\ itemCh = <<>>
    /\ itemChClosed = FALSE
    /\ errCh = <<>>
    /\ errChClosed = FALSE
    /\ wg = 0
    /\ mainPc = "start"
    /\ prodPc = "idle"
    /\ prodIdx = 0
    /\ prodPos = 0
    /\ wpc = [w \in Workers |-> "idle"]
    /\ wItem = [w \in Workers |-> NoItem]
    /\ wCur = [w \in Workers |-> 0]
    /\ erroredItems = <<>>
    /\ retErr = NoError
    /\ calls = [i \in 1..(IF kind = "queue" THEN Len(items) ELSE Len(content)) |-> 0]
    /\ progressLog = <<>>
    /\ errorLog = [i \in 1..(IF kind = "queue" THEN Len(items) ELSE Len(content)) |-> <<>>]
    /\ PipelineIdle
    /\ RestIdle

\* one run of Process after WithProgressNotifier(batch, f) with any batch
SpecBatch == InitBatch /\ [][NextPool]_vars

\* one run of Process on a freshly constructed pool
SpecPool == InitPool /\ [][NextPool]_vars

\* every goroutine that can take a step eventually takes one
LivePool == SpecPool /\ WF_vars(NextPool)

\* one invocation of a composed step
SpecPipeline == InitPipeline /\ [][NextPipeline]_vars

\* every goroutine of the pipeline that can take a step eventually takes one
LivePipeline == SpecPipeline /\ WF_vars(NextPipeline)

(* --------------------------- claims on pipelines ----------------------- *)

\* the branches whose call has returned an error
FailedBranches == {i \in Branches : bpc[i] \in {"running", "deferred", "done"} /\ bOut[i].err # "nil"}

\* C4: when a branch of InParallel over n >= 1 steps has returned a non-nil
\* error, the composed step returns (nil, e) with e an error returned by a
\* branch, under every interleaving; it never returns the results with a nil
\* error
C4_BranchErrorIsReturned ==
    (pipeline.k = "par" /\ pipePc = "returned" /\ FailedBranches # {})
        => /\ pipeOut = Nil
           /\ pipeErr \in {bOut[i].err : i \in FailedBranches}

\* every call of every branch returns without an error
BranchesErrorFree ==
    \A i \in 1..Len(Steps) : \A o \in Outcomes(Steps[i], input, lastErr) :
        ~o.panic /\ o.err = "nil"

\* C5: InParallel over n >= 1 steps that return no error returns, with a nil
\* error, a sequence of length n whose element i is the output of the i-th
\* declared step on the input, whatever the order in which the branches finish
C5_ResultsInDeclaredOrder ==
    (pipeline.k = "par" /\ Len(Steps) >= 1 /\ BranchesErrorFree /\ pipePc = "returned")
        => /\ pipeErr = "nil"
           /\ pipeOut.t = "list"
           /\ Len(pipeOut.l) = Len(Steps)
           /\ \A i \in 1..Len(Steps) :
                Ret(pipeOut.l[i], "nil") \in Outcomes(Steps[i], input, lastErr)

C5_Witness ==
    /\ pipeline.k = "par"
    /\ Len(Steps) = 2
    /\ BranchesErrorFree
    /\ pipePc = "returned"
    /\ pipeOut.l[1] # pipeOut.l[2]
    /\ pipeOut.l[2] # Nil

\* the error returned by the step before the j-th call, or the prior error the
\* sequence was invoked with
ErrBefore(j) == IF j = 1 THEN lastErr ELSE invoked[j - 1].err

\* C6: when a step of an InSequence returns the exit marker, no later step of
\* the sequence is invoked and the sequence returns (nil, e), e being the error
\* returned by the step before the exiting one (the sequence's prior error when
\* the exiting step is the first); the marker is not returned
C6_ExitHaltsWithPreviousError ==
    pipeline.k = "seq" =>
        \A j \in 1..Len(invoked) :
            (~invoked[j].panic /\ invoked[j].err = ErrExit)
                => /\ j = Len(invoked)
                   /\ pipePc = "returned"
                   /\ pipeOut = Nil
                   /\ pipeErr = ErrBefore(j)
                   /\ pipeErr # ErrExit

C6_Witness ==
    /\ pipeline.k = "seq"
    /\ pipePc = "returned"
    /\ Len(invoked) = 2
    /\ Len(Steps) = 3
    /\ invoked[2].err = ErrExit
    /\ pipeErr = "E1"

SeqRanErrorFree ==
    /\ pipeline.k = "seq"
    /\ pipePc = "returned"
    /\ \A j \in 1..Len(invoked) : ~invoked[j].panic /\ invoked[j].err = "nil"

\* each step was invoked once, in declared order, on the previous step's
\* output, and the sequence returned the output of the last one
SeqIsComposition ==
    /\ Len(invoked) = Len(Steps)
    /\ \A j \in 1..Len(invoked) :
        /\ invoked[j].i = j
        /\ invoked[j].in = (IF j = 1 THEN input ELSE invoked[j - 1].out)
        /\ Ret(invoked[j].out, "nil") \in Outcomes(Steps[j], invoked[j].in, ErrBefore(j))
    /\ pipeOut = (IF Len(Steps) = 0 THEN input ELSE invoked[Len(Steps)].out)

\* C8: for N >= 0 steps that return no error, InSequence returns
\* sN(...s1(input)...), every step invoked once, in declared order, on the
\* previous step's output; the error is nil for N >= 1, and for N = 0 it is the
\* prior error the sequence was invoked with
C8_ErrorFreeSequenceComposes ==
    SeqRanErrorFree
        => /\ SeqIsComposition
           /\ pipeErr = (IF Len(Steps) = 0 THEN lastErr ELSE "nil")

C8_Witness ==
    /\ SeqRanErrorFree
    /\ Len(Steps) = 3
    /\ input = IntVal(1)
    /\ invoked[1].out = IntVal(2)
    /\ invoked[2].out = IntVal(4)
    /\ pipeOut = IntVal(5)

\* C8 as stated: the error is nil for every N >= 0
C8_AsStated ==
    SeqRanErrorFree => (SeqIsComposition /\ pipeErr = "nil")

\* C9: an invoked InSequence or InParallel never returns the exit marker as its
\* error, whatever its nesting and whatever prior error it is invoked with
C9_MarkerNeverReturned ==
    (pipeline.k \in {"seq", "par"} /\ pipePc = "returned") => pipeErr # ErrExit

(* ------------------------ claims on the worker pools ------------------- *)

\* Process of a ParallelQueue has returned from a run that passed the checks
QueueRunReturned ==
    kind = "queue" /\ mainPc = "done" /\ QueueConfigFault = NoError

\* the positions of the items in the returned error-set
ErroredPositions == {erroredItems[i].idx : i \in DOMAIN erroredItems}

\* C1: when ParallelQueue.Process returns from a run over M >= 1 items with
\* W >= 1 workers, the error-set holds exactly the K items the process function
\* fails on, each once, and the error is 'encountered K errors during
\* processing' when K > 0 and nil when K = 0.
C1_ErrorSetIsTheFailedItems ==
    QueueRunReturned =>
        /\ Len(erroredItems) = Cardinality(failing)
        /\ ErroredPositions = failing
        /\ \A i \in DOMAIN erroredItems :
               erroredItems[i].val = items[erroredItems[i].idx]
        /\ retErr = IF failing = {}
                    THEN NoError
                    ELSE [msg |-> "encountered %d errors during processing",
                          n |-> Cardinality(failing)]

\* a run of two workers over two items of which one failed has returned
C1_Witness ==
    /\ QueueRunReturned
    /\ numberOfWorkers = 2
    /\ Len(items) = 2
    /\ Cardinality(failing) = 1
    /\ Len(erroredItems) = 1
    /\ retErr.n = 1

\* C2: in ParallelQueue.Process the process function is never invoked twice
\* for an item, and when Process returns it has been invoked exactly once for
\* every item, whichever items fail.
C2_EveryItemProcessedOnce ==
    kind = "queue" =>
        /\ \A i \in DOMAIN calls : calls[i] <= 1
        /\ QueueRunReturned => \A i \in 1..Len(items) : calls[i] = 1

\* a run in which the first item failed has returned with the second processed
C2_Witness ==
    /\ QueueRunReturned
    /\ Len(items) = 2
    /\ 1 \in failing
    /\ calls[2] = 1

\* C3: with valid configuration both Process methods eventually return.
C3_ProcessReturns == (ConfigFault = NoError) ~> (mainPc = "done")

\* the producer is blocked on the full item channel of a file processor
C3_Witness ==
    /\ kind = "file"
    /\ ConfigFault = NoError
    /\ mainPc = "wait"
    /\ prodPc = "loop"
    /\ Fetch.item # NoItem
    /\ ~ItemChHasRoom

\* the multiples of the batch size among the counts 1..m
BatchMultiples(m) == {c \in 1..m : c % progressBatch = 0}

\* how often the progress notifier was invoked with count c
TimesNotified(c) == Cardinality({i \in DOMAIN progressLog : progressLog[i] = c})

\* C10: in a run of a fresh ParallelQueue over M items with a progress notifier
\* and batch size B >= 1, the notifier is invoked at most once per count and
\* only for multiples of B in 1..M, and when Process returns it has been
\* invoked exactly once for each of them.
C10_OneNotificationPerMultiple ==
    (kind = "queue" /\ progressFuncSet) =>
        /\ \A i \in DOMAIN progressLog : progressLog[i] \in BatchMultiples(Len(items))
        /\ \A c \in BatchMultiples(Len(items)) : TimesNotified(c) <= 1
        /\ QueueRunReturned =>
               \A c \in BatchMultiples(Len(items)) : TimesNotified(c) = 1

\* two workers, two items, batch size 1: both counts were notified
C10_Witness ==
    /\ QueueRunReturned
    /\ progressFuncSet
    /\ progressBatch = 1
    /\ numberOfWorkers = 2
    /\ Len(progressLog) = 2


\* the sum of f over the positions 1..n
RECURSIVE SumTo(_, _)
SumTo(f, n) == IF n = 0 THEN 0 ELSE f[n] + SumTo(f, n - 1)

\* the workers that have handled an item and have not yet stored the counter
BeforeStore == {w \in Workers : wpc[w] \in {"lock", "incr"}}

\* the workers whose currentProcessed is a value they read back from the counter
HasObserved == {w \in Workers : wCur[w] > 0 /\ wpc[w] # "incr"}

\* C11: the processed counter is exact and monotonic: it grows by exactly one
\* for each handled item, failed or not, it never decreases, no increment is
\* lost under concurrent workers, two workers never observe the same value, and
\* on a fresh queue it equals M when Process returns.
C11_CounterIsExact ==
    /\ [](/\ processed = SumTo(calls, Len(calls)) - Cardinality(BeforeStore)
          /\ \A v, w \in HasObserved : v # w => wCur[v] # wCur[w]
          /\ \A w \in HasObserved : wCur[w] <= processed
          /\ QueueRunReturned => processed = Len(items)
          /\ (kind = "file" /\ mainPc = "done" /\ ConfigFault = NoError)
                => processed = prodIdx)
    /\ [][processed' = processed \/ processed' = processed + 1]_vars

\* two workers have handled one item each, one of them a failed item, and both
\* have stored the counter
C11_Witness ==
    /\ QueueRunReturned
    /\ numberOfWorkers = 2
    /\ failing = {1}
    /\ processed = 2
    /\ wCur[1] > 0
    /\ wCur[2] > 0


\* C12: Process on a pool constructed with a worker count W <= 0 returns the
\* error 'number of workers must be positive' and an empty error-set, and the
\* process function is never invoked, whatever else was configured.
C12_NoWorkersIsRejected ==
    numberOfWorkers <= 0 =>
        /\ \A i \in DOMAIN calls : calls[i] = 0
        /\ mainPc \in {"start", "done"}
        /\ mainPc = "done" =>
            /\ retErr = [msg |-> "number of workers must be positive", n |-> 0]
            /\ erroredItems = <<>>

\* Process of a queue with no workers and nothing else set has returned
C12_Witness ==
    /\ kind = "queue"
    /\ numberOfWorkers <= 0
    /\ ~itemsSet
    /\ ~processFuncSet
    /\ mainPc = "done"
    /\ retErr.msg = "number of workers must be positive"


\* the worker count is positive and another setting is missing
Misconfigured ==
    /\ numberOfWorkers > 0
    /\ \/ kind = "queue" /\ (~itemsSet \/ Len(items) = 0 \/ ~processFuncSet)
       \/ kind = "file" /\ (filePath = "" \/ ~fileOpens \/ ~processFuncSet)

\* C13: every configuration violation other than the worker count makes
\* Process return a non-nil configuration error and an empty error-set before
\* any worker or producer is started: the process function and both notifiers
\* are never invoked and the processed counter is unchanged.
C13_MisconfigurationHasNoEffect ==
    Misconfigured =>
        /\ mainPc \in {"start", "done"}
        /\ prodPc = "idle"
        /\ \A w \in Workers : wpc[w] = "idle"
        /\ \A i \in DOMAIN calls : calls[i] = 0
        /\ \A i \in DOMAIN errorLog : errorLog[i] = <<>>
        /\ progressLog = <<>>
        /\ processed = 0
        /\ mainPc = "done" =>
            /\ retErr.msg \in {"items must be non-nil and non-empty",
                               "process function must be set",
                               "file path must be set",
                               "process line function must be set",
                               "failed to open file"}
            /\ erroredItems = <<>>

\* Process of a queue with items and notifiers and no process function has
\* returned
C13_Witness ==
    /\ kind = "queue"
    /\ numberOfWorkers = 2
    /\ Len(items) = 2
    /\ ~processFuncSet
    /\ progressFuncSet
    /\ errorFuncSet
    /\ mainPc = "done"
    /\ retErr.msg = "process function must be set"


\* Process of a ParallelFileProcessor has returned from a run that passed the
\* checks
FileRunReturned ==
    kind = "file" /\ mainPc = "done" /\ FileConfigFault = NoError

\* the error notifier was told that the failure channel was full
ToldChannelFull ==
    \E i \in DOMAIN errorLog : \E j \in DOMAIN errorLog[i] :
        errorLog[i][j] = "error channel is full"

\* C14: in ParallelFileProcessor.Process the failure channel holds every
\* failing line: for K failing lines among M, with W workers, the returned
\* error-set has size K and the summary error names K, also when K > W, and a
\* send of a failed line never finds the channel full.
C14_FileErrorSetHoldsEveryFailure ==
    /\ kind = "file" => ~ToldChannelFull
    /\ FileRunReturned =>
        /\ Len(erroredItems) = Cardinality(failing)
        /\ retErr = IF failing = {}
                    THEN NoError
                    ELSE [msg |-> "encountered %d errors during line processing",
                          n |-> Cardinality(failing)]


\* the segments of b between line feeds, the delimiters stripped; a final
\* segment without a line feed counts when it is not empty
RECURSIVE SplitOnLF(_)
SplitOnLF(b) ==
    IF b = <<>> THEN <<>>
    ELSE LET lfs == {j \in 1..Len(b) : b[j] = LF}
         IN  IF lfs = {} THEN <<b>>
             ELSE LET j == CHOOSE k \in lfs : \A l \in lfs : k <= l
                  IN  <<SubSeq(b, 1, j - 1)>> \o SplitOnLF(SubSeq(b, j + 1, Len(b)))

\* C15: ParallelFileProcessor.Process invokes the process function exactly once
\* for every line of the file, the lines being the segments between line feeds
\* with the delimiter stripped, a final non-empty segment without a line feed
\* included.
C15_EveryLineIsProcessed ==
    (kind = "file" /\ readFaultAt = -1) =>
        /\ \A w \in Workers :
            wpc[w] = "process" =>
                /\ wItem[w].idx <= Len(SplitOnLF(content))
                /\ wItem[w].val = SplitOnLF(content)[wItem[w].idx]
        /\ \A i \in DOMAIN calls : calls[i] <= 1
        /\ FileRunReturned =>
            \A i \in 1..Len(SplitOnLF(content)) : calls[i] = 1


\* C16: in ParallelQueue.Process with an error notifier set, the notifier is
\* invoked exactly once for each item the process function fails on, with that
\* item and the error the process function returned; it is never invoked for
\* an item that succeeded, nor with an 'error channel is full' error.
C16_NotifierOncePerFailedItem ==
    (kind = "queue" /\ errorFuncSet) =>
        /\ \A i \in DOMAIN errorLog :
            /\ errorLog[i] \in {<<>>, <<"item error">>}
            /\ errorLog[i] # <<>> => (i \in failing /\ calls[i] = 1)
        /\ QueueRunReturned =>
            \A i \in failing : errorLog[i] = <<ProcessFunc([idx |-> i, val |-> items[i]])>>

\* one worker, two failed items: the notifier was invoked for both
C16_Witness ==
    /\ QueueRunReturned
    /\ errorFuncSet
    /\ numberOfWorkers = 1
    /\ failing = {1, 2}
    /\ errorLog[1] = <<"item error">>
    /\ errorLog[2] = <<"item error">>


(* ---------------------- more claims on pipelines ----------------------- *)

\* C17: InParallel with zero steps returns (nil, nil) for any input and any
\* prior error, and starts no concurrent branch.
C17_EmptyParallelReturnsNil ==
    (pipeline.k = "par" /\ Len(Steps) = 0) =>
        /\ pipePc \in {"start", "returned"}
        /\ bpc = <<>>
        /\ branchCalls = <<>>
        /\ parWg = 0
        /\ ~doneClosed
        /\ pipePc = "returned" => (pipeOut = Nil /\ pipeErr = "nil")

\* an InParallel without steps, invoked with an input and a prior error, has
\* returned
C17_Witness ==
    /\ pipeline.k = "par"
    /\ Len(Steps) = 0
    /\ input = IntVal(1)
    /\ lastErr = "E0"
    /\ pipePc = "returned"

\* C18: InSequence with zero steps is the identity: it returns the input it was
\* given, unchanged, together with the prior error it was given.
C18_EmptySequenceIsIdentity ==
    (pipeline.k = "seq" /\ Len(Steps) = 0) =>
        /\ invoked = <<>>
        /\ pipePc = "returned" => (pipeOut = input /\ pipeErr = lastErr)

\* an InSequence without steps, invoked with an input and a prior error, has
\* returned
C18_Witness ==
    /\ pipeline.k = "seq"
    /\ Len(Steps) = 0
    /\ input = IntVal(1)
    /\ lastErr = "E0"
    /\ pipePc = "returned"
    /\ pipeOut = IntVal(1)


\* the branches whose step has been called
Called == {i \in Branches : bpc[i] \in {"running", "deferred", "done", "panicked"}}

\* C19: every branch of InParallel is invoked exactly once, with the (input,
\* prior error) pair the composed step received; no branch receives another
\* branch's output or error.
C19_BranchesGetTheSameArguments ==
    pipeline.k = "par" =>
        /\ \A i \in Branches :
            branchCalls[i] = IF i \in Called
                             THEN <<[in |-> input, prior |-> lastErr]>>
                             ELSE <<>>
        /\ (pipePc = "returned" /\ pipeErr = "nil" /\ Len(Steps) >= 1)
                => Called = 1..Len(Steps)

\* two branches were called with the input 1 and the prior error E0, the first
\* returned an output and the second returned the prior error it was given
C19_Witness ==
    /\ pipeline.k = "par"
    /\ Len(Steps) = 2
    /\ input = IntVal(1)
    /\ lastErr = "E0"
    /\ Called = {1, 2}
    /\ bpc[1] = "done"
    /\ bpc[2] = "done"
    /\ bOut[1] = Ret(IntVal(2), "nil")
    /\ bOut[2] = Ret(IntVal(2), "E0")

\* C20: when several branches of InParallel return errors, the error the
\* composed step returns is the one of the branch that reported its error
\* first.
C20_FirstReportedErrorIsReturned ==
    (pipeline.k = "par" /\ pipePc = "returned" /\ Cardinality(FailedBranches) >= 2)
        => /\ reported # <<>>
           /\ pipeErr = bOut[reported[1]].err

\* when the composed step returns an error, it is the first one sent to errCh
FirstInFirstOut ==
    (pipeline.k = "par" /\ pipePc = "returned" /\ pipeErr # "nil")
        => /\ reported # <<>>
           /\ pipeErr = bOut[reported[1]].err


\* no call of a branch's step panics
BranchesNeverPanic ==
    \A i \in 1..Len(Steps) : \A o \in Outcomes(Steps[i], input, lastErr) : ~o.panic

\* C21: after InParallel has returned an error every branch still running
\* finishes, and so does the completion waiter: a branch's send on the error
\* channel of capacity n never blocks and is never dropped, and no branch is
\* cancelled.
C21_BranchesFinishAfterError ==
    /\ [](pipeline.k = "par" =>
            \A i \in Branches :
                (bpc[i] \in {"deferred", "done"} /\ bOut[i].err # "nil")
                    => \E k \in DOMAIN reported : reported[k] = i)
    /\ (pipeline.k = "par" /\ BranchesNeverPanic /\ pipePc = "returned" /\ pipeErr # "nil")
            ~> ((\A i \in Branches : bpc[i] = "done") /\ doneClosed)

\* InParallel has returned the error of its first branch while the step of its
\* second branch is still running
C21_Witness ==
    /\ pipeline.k = "par"
    /\ Len(Steps) = 2
    /\ BranchesNeverPanic
    /\ pipePc = "returned"
    /\ pipeErr = "E1"
    /\ bpc[2] = "running"


\* C24: the branches of InParallel overlap: a later-declared branch can start
\* and finish while an earlier-declared one is still running; the composed
\* step then keeps waiting for the earlier one, and the results are returned
\* in declared order.
C24_BranchesOverlap ==
    (pipeline.k = "par" /\ BranchesErrorFree) =>
        /\ \A i, j \in Branches :
            (i < j /\ bpc[j] = "done" /\ bpc[i] # "done")
                => /\ pipePc = "select"
                   /\ ~doneClosed
                   /\ results[j] = bOut[j].out
                   /\ bpc[i] \in {"ready", "running"} => results[i] = Nil
        /\ (pipePc = "returned" /\ Len(Steps) >= 1)
                => pipeOut = ListVal([i \in Branches |-> bOut[i].out])

\* the second branch has finished and written its result while the step of the
\* first branch is still running
C24_Witness ==
    /\ pipeline.k = "par"
    /\ BranchesErrorFree
    /\ Len(bpc) = 2
    /\ bpc[1] = "running"
    /\ bpc[2] = "done"
    /\ results[2] = IntVal(2)
    /\ pipePc = "select"


\* the last call an InSequence made returned the exit marker
EndedByExit ==
    /\ Len(invoked) >= 1
    /\ ~invoked[Len(invoked)].panic
    /\ invoked[Len(invoked)].err = ErrExit

RunReturned == mainPc = "done" /\ ConfigFault = NoError

\* C28: when a worker finds the failure channel full as an item fails, the
\* error notifier, if set, is invoked with 'error channel is full' and then
\* with the item's own error; the item is not added to the error-set; it is
\* still counted as processed and the worker goes on with later items.
C28_FullChannelIsReportedAndItemDropped ==
    /\ \A i \in DOMAIN errorLog :
        errorLog[i] \in {<<>>, <<"item error">>,
                         <<"error channel is full", "item error">>}
    /\ RunReturned =>
        /\ ErroredPositions \subseteq failing
        /\ errorFuncSet =>
            \A i \in failing :
                errorLog[i] = IF i \in ErroredPositions
                              THEN <<"item error">>
                              ELSE <<"error channel is full", "item error">>
        /\ \A i \in 1..prodIdx : calls[i] = 1
        /\ processed = prodIdx

\* one worker of a file processor failed on two lines: the second found the
\* channel full, was reported twice, was dropped and was counted
C28_Witness ==
    /\ kind = "file"
    /\ RunReturned
    /\ errorFuncSet
    /\ numberOfWorkers = 1
    /\ failing = {1, 2}
    /\ ErroredPositions = {1}
    /\ errorLog[2] = <<"error channel is full", "item error">>
    /\ processed = 2


\* C29: when reading the file fails with a fault other than end-of-stream
\* after j complete lines, Process treats it as truncation: the j lines are
\* each processed once, the line channel is closed, every worker terminates,
\* and Process returns without a configuration error and without the fault in
\* the error-set.
C29_ReadFaultTruncates ==
    (kind = "file" /\ readFaultAt >= 0 /\ FileConfigFault = NoError) =>
        /\ \A i \in DOMAIN calls : calls[i] <= (IF i <= NumLines THEN 1 ELSE 0)
        /\ mainPc = "done" =>
            /\ \A i \in 1..NumLines : calls[i] = 1
            /\ prodPc = "done"
            /\ itemChClosed
            /\ \A w \in Workers : wpc[w] = "done"
            /\ ErroredPositions \subseteq failing
            /\ Len(erroredItems) <= NumLines
            /\ retErr = SummaryError(Len(erroredItems))

\* the reader faulted after the first of two lines; Process has returned with
\* the first line processed
C29_Witness ==
    /\ kind = "file"
    /\ FileConfigFault = NoError
    /\ content = <<LF, LF>>
    /\ readFaultAt = 1
    /\ mainPc = "done"
    /\ calls = <<1, 0>>
    /\ retErr = NoError


\* C30: the progress notifications of a run are not globally ordered: the
\* count is read under the lock, the notifier is called after the lock is
\* released, so with two workers the notifier can be invoked for a larger
\* multiple of the batch size before a smaller one; with one worker the counts
\* come in increasing order.
C30_NotifierRunsOutsideTheLock ==
    /\ \A w \in Workers :
        wpc[w] = "notify" =>
            /\ progressFuncSet
            /\ processedMutex # w
            /\ wCur[w] \in 1..processed
            /\ wCur[w] % progressBatch = 0
    /\ numberOfWorkers = 1 =>
        \A i, j \in DOMAIN progressLog : i < j => progressLog[i] < progressLog[j]

\* the notifier of a queue with two workers and batch size 1 was invoked with
\* the count 2 before it was invoked with the count 1
C30_Witness ==
    /\ kind = "queue"
    /\ numberOfWorkers = 2
    /\ progressBatch = 1
    /\ progressLog = <<2, 1>>


(* ------------------------ claims on helper steps ----------------------- *)

\* the name of the type argument I
TypeLabel(T) ==
    CASE T = "int" -> "int"
      [] T = "string" -> "string"
      [] T = "list" -> "[]interface {}"
      [] T = "any" -> "interface {}"
      [] T = "Stringer" -> "fmt.Stringer"

\* the runtime type of a non-nil value is, or implements, the type T
HasType(v, T) ==
    CASE T = "any" -> TRUE
      [] T = "Stringer" -> FALSE
      [] OTHER -> v.t = T

\* C22: a step built with AsPipelineStep for input type I, called with a
\* non-nil input whose runtime type is not I, panics with 'expected type <I>,
\* got <actual>' and never invokes the wrapped function; called with nil it
\* invokes the wrapped function with the zero value of I; called with a value
\* of type I it passes that value unchanged.
C22_AssertInChecksTheInputType ==
    (fn.name = "AsPipelineStep" /\ fnPc # "start") =>
        IF fnInput = Nil
        THEN /\ fnPc = "returned"
             /\ fnWrapped = <<[in |-> ZeroValue(fn.T), prior |-> fnLastErr]>>
        ELSE IF HasType(fnInput, fn.T)
        THEN /\ fnPc = "returned"
             /\ fnWrapped = <<[in |-> fnInput, prior |-> fnLastErr]>>
        ELSE /\ fnPc = "panicked"
             /\ fnWrapped = <<>>
             /\ fnPanic = [format |-> "expected type %T, got %T",
                           expected |-> TypeLabel(fn.T),
                           got |-> GoTypeName(fnInput)]

\* for the type arguments that are not interface types the panic names I
MismatchNamesConcreteTypes ==
    (fn.name = "AsPipelineStep" /\ fn.T \in {"int", "string", "list"})
        => C22_AssertInChecksTheInputType

\* C26: TakeSubsetStep(start, end) returns an error, and never panics, when
\* start or end is out of bounds for the input slice (start < 0, start > len,
\* end < 0 or end > len); otherwise it returns the elements at [start, end)
\* and passes the prior error through.
C26_TakeSubsetRejectsBadRanges ==
    (fn.name = "TakeSubsetStep" /\ fnPc # "start" /\ fnInput.t \in {"nil", "list"}) =>
        LET n == Len(fnInput.l)
        IN  IF fn.start < 0 \/ fn.start > n \/ fn.end < 0 \/ fn.end > n
            THEN fnPc = "returned" /\ fnErr = "invalid range"
            ELSE /\ fnPc = "returned"
                 /\ fnOut = ListVal(SubSeq(fnInput.l, fn.start + 1, fn.end))
                 /\ fnErr = fnLastErr


(* ------------------------- claims on RoundRobin ------------------------ *)

\* C27: for a RoundRobin over n >= 1 items, in every interleaving of
\* concurrent Next calls the values returned, in the order the calls acquire
\* the lock, are items[0], items[1], ..., items[n-1], items[0], ...: the k-th
\* call returns items[k mod n], the index stays within [0, n), and after any
\* n*m calls every item has been returned exactly m times.
C27_NextGoesRoundTheItems ==
    rrCreated =>
        LET n == Len(rrItems)
        IN  /\ n >= 1
            /\ rrIndex \in 0..(n - 1)
            /\ \A c \in Callers : rrPc[c] # "panicked"
            /\ \A k \in 1..Len(rrLog) :
                  /\ rrLog[k].idx = (k - 1) % n
                  /\ rrLog[k].item = rrItems[((k - 1) % n) + 1]
            /\ (Len(rrLog) % n = 0) =>
                  \A i \in 0..(n - 1) :
                      Cardinality({k \in 1..Len(rrLog) : rrLog[k].idx = i})
                          = Len(rrLog) \div n

\* both goroutines have called Next on two distinct items, which were each
\* returned twice
C27_Witness ==
    /\ rrCreated
    /\ Len(rrItems) = 2
    /\ rrItems[1] # rrItems[2]
    /\ Len(rrLog) = 4
    /\ \A c \in Callers : rrPc[c] = "idle" /\ \E k \in 1..4 : rrLog[k].by = c


(* ---------------------- claims on repeated Execute --------------------- *)

RECURSIVE Quiet(_, _, _), QuietFrom(_, _, _, _)

\* in no evaluation of step(in, prior) does a step return an error or panic
Quiet(step, in, prior) ==
    CASE step.k = "leaf" ->
            LET o == LeafApply(step.f, in, prior) IN ~o.panic /\ o.err = "nil"
      [] step.k = "seq" -> QuietFrom(step.steps, 1, in, prior)
      [] step.k = "par" ->
            \A i \in 1..Len(step.steps) : Quiet(step.steps[i], in, prior)

\* the same for the steps of a sequence from the i-th on
QuietFrom(steps, i, cur, e) ==
    IF i > Len(steps) THEN TRUE
    ELSE /\ Quiet(steps[i], cur, e)
         /\ \A o \in Outcomes(steps[i], cur, e) :
                QuietFrom(steps, i + 1, o.out, o.err)

\* C23: executing the same composed pipeline repeatedly with Execute, when its
\* generator and steps are pure and return no error, yields the same (output,
\* error) on every run, whatever the interleaving of the parallel branches in
\* each run: nothing is carried from one execution to the next.
C23_EveryRunReturnsTheSame ==
    Quiet(pipeline, Nil, "nil") =>
        /\ pipePc # "panicked"
        /\ \A k \in 1..Len(runs) : runs[k] = runs[1] /\ runs[k].err = "nil"
        /\ pipePc = "returned" =>
               \A k \in 1..Len(runs) : runs[k] = Ret(pipeOut, pipeErr)

\* an InParallel of two pure steps has been executed MaxRuns times and has
\* returned its two results in declaration order
C23_Witness ==
    /\ pipeline = InParallel(<<Leaf("addOne"), Leaf("double")>>)
    /\ Quiet(pipeline, Nil, "nil")
    /\ Len(runs) = MaxRuns - 1
    /\ pipePc = "returned"
    /\ pipeOut.t = "list"
    /\ Len(pipeOut.l) = 2
    /\ pipeOut.l[1] # pipeOut.l[2]


(* ---------------------- claims on the pools' bounds -------------------- *)

\* the workers inside a call of the process function
InProcessFunc == {w \in Workers : wpc[w] = "process"}

\* C31: during a Process run with W workers, at every moment at most W
\* invocations of the process function are in progress and at most W items
\* are buffered in the item channel; the producer never hands out an item
\* while the channel already holds W items.
C31_AtMostWInFlight ==
    (ConfigFault = NoError /\ mainPc # "start") =>
        /\ Cardinality(InProcessFunc) <= numberOfWorkers
        /\ Len(itemCh) <= numberOfWorkers

\* the channel holds W items and the producer, which has another item to hand
\* out, has to wait
C31_Witness ==
    /\ ConfigFault = NoError
    /\ mainPc = "wait"
    /\ Len(itemCh) = numberOfWorkers
    /\ prodPc = "loop"
    /\ Fetch.item # NoItem
    /\ ~ItemChHasRoom


(* -------------------- claims on the closing of channels ---------------- *)

\* C32: in both worker pools the failure channel is closed only after every
\* worker has terminated, so no worker ever sends on a closed failure channel,
\* and the item channel is closed only by the producer after its last send, so
\* no send on a closed item channel occurs.
C32_ChannelsAreClosedAfterTheirSenders ==
    /\ errChClosed => \A w \in Workers : wpc[w] = "done"
    /\ itemChClosed => (prodPc = "done" /\ Fetch.item = NoItem)
    /\ mainPc # "panicked"

\* a pool of two workers has closed both channels after a failed item was
\* sent on the failure channel
C32_Witness ==
    /\ numberOfWorkers = 2
    /\ errChClosed
    /\ itemChClosed
    /\ mainPc = "drain"
    /\ Len(errCh) >= 1
    /\ \A w \in Workers : wpc[w] = "done"


(* ------------- claims on the order of the two notifiers ---------------- *)

\* the positions whose call of the process function, and for a failure the
\* select after it, are over
Handled == {i \in DOMAIN calls : calls[i] >= 1}

\* the error notifier has run to completion for position i
ErrorNotified(i) ==
    errorLog[i] \in {<<"item error">>, <<"error channel is full", "item error">>}

\* C33: for every failed item the error notifier call(s) for that item
\* complete before the item is added to the processed counter; hence whenever
\* the progress notifier is invoked with count c, the error notifications of
\* all failed items among the c counted items have already completed.
C33_ErrorNotifierBeforeTheCount ==
    (ConfigFault = NoError /\ mainPc # "start") =>
        /\ \A w \in Workers :
              (wpc[w] \in {"lock", "incr", "notify"} /\ errorFuncSet
                  /\ wItem[w].idx \in failing) => ErrorNotified(wItem[w].idx)
        /\ \A i \in Handled : (errorFuncSet /\ i \in failing) => ErrorNotified(i)
        /\ processed <= Cardinality(Handled)
        /\ \A w \in Workers : wpc[w] = "notify" => wCur[w] <= Cardinality(Handled)

\* the progress notifier is about to be invoked by a worker whose item
\* failed, after the error notifier was called for that item
C33_Witness ==
    /\ errorFuncSet
    /\ \E w \in Workers :
          /\ wpc[w] = "notify"
          /\ wItem[w].idx \in failing
          /\ wCur[w] = 2
          /\ failing = {1, 2}
          /\ ErrorNotified(wItem[w].idx)


(* ------------------------ claims on the batch size --------------------- *)

\* C35: the batch size is not validated by Process: WithProgressNotifier
\* accepts any integer, and with a progress notifier set and batch size 0 a
\* worker faults (remainder by zero) on the first handled item instead of
\* Process returning a configuration error.
C35_BatchZeroFaultsInAWorker ==
    /\ (progressFuncSet /\ progressBatch = 0) =>
          /\ retErr = NoError
          /\ progressLog = <<>>
          /\ processed >= 1 => mainPc = "panicked"
    /\ ~(progressFuncSet /\ progressBatch = 0) => mainPc # "panicked"

\* the worker that handled the first item has panicked
C35_Witness ==
    /\ progressFuncSet
    /\ progressBatch = 0
    /\ processed = 1
    /\ mainPc = "panicked"
    /\ \E w \in Workers : wpc[w] = "panicked"


(* ------------------- claims on Process called again -------------------- *)

\* C34: the processed counter belongs to the queue object and is never reset
\* by Process: after k sequential successful Process runs over M items each
\* on the same ParallelQueue the counter equals k*M, and the progress
\* notifications of a later run report counts that continue from the earlier
\* runs instead of starting at zero.
C34_CounterRunsOnAcrossRuns ==
    /\ \A k \in 1..Len(runs) :
          runs[k].err = NoError => runs[k].processed = k * Len(items)
    /\ (mainPc = "done" /\ retErr = NoError) =>
          processed = (Len(runs) + 1) * Len(items)
    /\ processed >= Len(runs) * Len(items)
    /\ \A j \in 1..Len(progressLog) :
          /\ progressLog[j] > Len(runs) * Len(items)
          /\ progressLog[j] <= (Len(runs) + 1) * Len(items)

\* the last of MaxRuns runs over two items has returned, and its progress
\* notifier was invoked with a count above the number of items
C34_Witness ==
    /\ Len(runs) = MaxRuns - 1
    /\ Len(runs) >= 1
    /\ Len(items) = 2
    /\ mainPc = "done"
    /\ retErr = NoError
    /\ processed = MaxRuns * 2
    /\ \E j \in 1..Len(progressLog) : progressLog[j] > Len(items)


(* ------------------ claims on the most recent error -------------------- *)

\* the error returned by the step before the j-th call of the sequence: the
\* prior error of the sequence for the first call
ReturnedBefore(j) == IF j = 1 THEN lastErr ELSE invoked[j - 1].err

ExitingSequence == InSequence(<<Leaf("failA"), Leaf("exit"), Leaf("addOne")>>)

ReturnedResults ==
    /\ pipeline.k = "par"
    /\ Len(Steps) >= 1
    /\ pipePc = "returned"
    /\ pipeErr = "nil"

\* C38: when InParallel returns a result sequence with a nil error, every
\* branch has already finished and written its slot: no branch writes to the
\* returned sequence after the composed step has returned it.
C38_ReturnedResultsAreComplete ==
    ReturnedResults =>
        /\ \A i \in Branches :
              /\ bpc[i] = "done"
              /\ bOut[i].err = "nil"
              /\ results[i] = bOut[i].out
        /\ pipeOut = ListVal(results)

\* once the results are returned every branch goroutine has ended and the
\* slice is what was returned: nothing is written to it afterwards
ResultsFrozenAfterReturn ==
    ReturnedResults =>
        /\ \A i \in Branches : bpc[i] = "done"
        /\ \A i \in Branches : bOut[i].err = "nil" => results[i] = bOut[i].out
        /\ pipeOut = ListVal(results)


(* ------------------- claims on concurrent executions ------------------- *)

\* C39: two executions of the same composed pipeline running concurrently do
\* not interfere: each invocation of an InParallel step uses its own result
\* sequence, error channel and completion signal, so each execution returns
\* what it would return when run alone (for steps without shared caller
\* state).
C39_ExecutionsDoNotInterfere ==
    \A e \in Execs :
        /\ execs[e].pc = "returned" =>
              Ret(execs[e].out, execs[e].err)
                  \in Outcomes(pipeline, execs[e].in, execs[e].prior)
        /\ execs[e].pc = "panicked" =>
              Panic \in Outcomes(pipeline, execs[e].in, execs[e].prior)

\* two executions of an InParallel of two steps, the second started while the
\* first was under way and with another input, have both returned their own
\* results
C39_Witness ==
    /\ pipeline = InParallel(<<Leaf("addOne"), Leaf("double")>>)
    /\ execs["a"].pc = "returned"
    /\ execs["b"].pc = "returned"
    /\ execs["b"].overlap
    /\ execs["a"].out = ListVal(<<IntVal(1), IntVal(0)>>)
    /\ execs["b"].out = ListVal(<<IntVal(2), IntVal(2)>>)

=============================================================================
